---- MODULE Spec2Model ----
(***************************************************************************)
(* DefiBrain SDK: the retry wrapper (src/utils/RetryHelper.ts), the API    *)
(* client (src/DefiBrainClient.ts, src/config.ts), the protocol helpers    *)
(* (src/helpers), the transaction helper (src/utils/TransactionHelper.ts), *)
(* the amount conversions (src/utils/ValidationHelper.ts) and the wallet   *)
(* event subscriptions (src/utils/WalletHelper.ts).  Each component has    *)
(* its own specification over the same variables: rt (SpecRetry); client,  *)
(* call, pending, ctorCall (Spec); hp (SpecHelper); th (SpecTx,            *)
(* SpecTxLive); am (SpecAmount); wl (SpecWallet); sc (SpecPermissions for  *)
(* contracts/core/PermissionManager.sol, SpecRouter for DeFiRouter.sol).   *)
(*                                                                         *)
(* Conventions.  An optional JavaScript value is a sequence of length at   *)
(* most one: <<>> is `undefined`, <<v>> is the value v.  A string whose    *)
(* content is inspected (an error message, a retryable marker, an amount)  *)
(* is a sequence of tokens or characters and `includes` is contiguous      *)
(* sub-sequence search.  A string that is only compared, stored or tested  *)
(* for emptiness is a TLA+ string.                                         *)
(***************************************************************************)
EXTENDS Integers, Sequences, FiniteSets, TLC

VARIABLES rt, client, call, pending, ctorCall, hp, th, am, wl, sc

vars == <<rt, client, call, pending, ctorCall, hp, th, am, wl, sc>>

None == <<>>

Some(v) == <<v>>

(***************************************************************************)
(* Bounds of the explored inputs.                                          *)
(***************************************************************************)
MaxRetriesIn == 2

MaxBackoff == 3

MaxClientRetries == 1

(***************************************************************************)
(* RetryHelper.ts                                                          *)
(***************************************************************************)
DefaultMaxRetries == 3

DefaultInitialDelay == 1000

DefaultMaxDelay == 10000

DefaultBackoffFactor == 2

DefaultRetryableErrors ==
  {<<"ECONNRESET">>, <<"ETIMEDOUT">>, <<"ENOTFOUND">>, <<"NetworkError">>}

DEFAULT_OPTIONS ==
  [maxRetries      |-> DefaultMaxRetries,
   initialDelay    |-> DefaultInitialDelay,
   maxDelay        |-> DefaultMaxDelay,
   backoffFactor   |-> DefaultBackoffFactor,
   retryableErrors |-> DefaultRetryableErrors]

OptionKeys == DOMAIN DEFAULT_OPTIONS

NoOptions == [k \in OptionKeys |-> None]

\* { ...DEFAULT_OPTIONS, ...options }: a key present in options wins.
MergeOptions(options) ==
  [k \in OptionKeys |->
     IF options[k] = None THEN DEFAULT_OPTIONS[k] ELSE options[k][1]]

\* String.prototype.includes on token sequences.
Includes(message, marker) ==
  \E i \in 0..(Len(message) - Len(marker)) :
     SubSeq(message, i + 1, i + Len(marker)) = marker

\* A thrown value: an Error object with an identity and a message, or a
\* falsy value (a promise may reject with undefined).
MkError(id, msg) == [kind |-> "Error", id |-> id, msg |-> msg]

FalsyRejection == [kind |-> "falsy", id |-> 0, msg |-> <<>>]

RetryFailedError == MkError(0, <<"Retry", "failed">>)

Truthy(e) == e.kind = "Error"

\* error?.message || ''
MessageOf(e) == IF Truthy(e) THEN e.msg ELSE <<>>

IsRetryable(opts, e) ==
  \E marker \in opts.retryableErrors : Includes(MessageOf(e), marker)

RECURSIVE Pow(_, _)
Pow(b, n) == IF n = 0 THEN 1 ELSE b * Pow(b, n - 1)

Min(a, b) == IF a <= b THEN a ELSE b

\* Mutant of Delay: the cap is forgotten.
DelayUncapped(opts, attempt) ==
  opts.initialDelay * Pow(opts.backoffFactor, attempt)

Delay(opts, attempt) ==
  Min(opts.initialDelay * Pow(opts.backoffFactor, attempt), opts.maxDelay)

\* The activation record of one retry() call.  calls, delays and trace are
\* the observations a caller (or a jest mock) can make: how often fn was
\* invoked, which waits were taken, which values the attempts threw.
IdleFrame ==
  [status    |-> "idle",
   opts      |-> DEFAULT_OPTIONS,
   attempt   |-> 0,
   lastError |-> None,
   calls     |-> 0,
   delays    |-> <<>>,
   trace     |-> <<>>,
   result    |-> None,
   thrown    |-> None]

\* throw lastError || new Error('Retry failed')
ThrowLast(f) ==
  [f EXCEPT !.status = "thrown",
            !.thrown = IF f.lastError # None /\ Truthy(f.lastError[1])
                       THEN f.lastError
                       ELSE Some(RetryFailedError)]

\* The head of the for loop at the current attempt: invoke fn or fall out.
LoopHead(f) ==
  IF f.attempt <= f.opts.maxRetries
  THEN [f EXCEPT !.status = "calling", !.calls = @ + 1]
  ELSE ThrowLast(f)

RetryBegin(options) ==
  LoopHead([IdleFrame EXCEPT !.opts = MergeOptions(options)])

\* Mutant of RetryResolve: the result is kept but the loop goes on.
ResolveAndContinue(f, v) ==
  [f EXCEPT !.status = "sleeping", !.result = Some(v),
            !.delays = Append(@, Delay(f.opts, f.attempt))]

\* return await fn()
RetryResolve(f, v) == [f EXCEPT !.status = "returned", !.result = Some(v)]

\* Mutant of RetryReject: exhaustion throws a fresh wrapping error.
RejectWrapped(f, e) ==
  LET g == [f EXCEPT !.lastError = Some(e), !.trace = Append(@, e)]
  IN  IF g.attempt = g.opts.maxRetries
      THEN [g EXCEPT !.status = "thrown", !.thrown = Some(RetryFailedError)]
      ELSE IF ~IsRetryable(g.opts, e)
      THEN [g EXCEPT !.status = "thrown", !.thrown = Some(e)]
      ELSE [g EXCEPT !.status = "sleeping",
                     !.delays = Append(@, Delay(g.opts, g.attempt))]

\* Mutant of RetryReject: the retryable check is skipped.
RejectRetriesAll(f, e) ==
  LET g == [f EXCEPT !.lastError = Some(e), !.trace = Append(@, e)]
  IN  IF g.attempt = g.opts.maxRetries
      THEN ThrowLast(g)
      ELSE [g EXCEPT !.status = "sleeping",
                     !.delays = Append(@, Delay(g.opts, g.attempt))]

\* The catch block.
RetryReject(f, e) ==
  LET g == [f EXCEPT !.lastError = Some(e), !.trace = Append(@, e)]
  IN  IF g.attempt = g.opts.maxRetries
      THEN ThrowLast(g)
      ELSE IF ~IsRetryable(g.opts, e)
      THEN [g EXCEPT !.status = "thrown", !.thrown = Some(e)]
      ELSE [g EXCEPT !.status = "sleeping",
                     !.delays = Append(@, Delay(g.opts, g.attempt))]

\* The timer resolves; attempt++ and back to the loop head.
RetryWake(f) == LoopHead([f EXCEPT !.attempt = @ + 1])

(***************************************************************************)
(* retry() driven by an arbitrary operation.                               *)
(***************************************************************************)
Messages ==
  {<<>>, <<"NetworkError">>, <<"connect", "ETIMEDOUT", "again">>,
   <<"ValidationError">>}

MarkerSets ==
  {{<<"NetworkError">>}, {<<"ValidationError">>, <<"ETIMEDOUT", "again">>},
   {<<>>}, {}}

Values == {"success"}

\* What an attempt resolves with: the value and the invocation that made it.
MkValue(v, invocation) == [value |-> v, by |-> invocation]

RetryOptionInputs ==
  [maxRetries      : {None} \cup {Some(n) : n \in -1..MaxRetriesIn},
   initialDelay    : {None, Some(10)},
   maxDelay        : {None, Some(2000)},
   backoffFactor   : {None} \cup {Some(b) : b \in {1, MaxBackoff}},
   retryableErrors : {None} \cup {Some(m) : m \in MarkerSets}]

Finished(f) == f.status \in {"idle", "returned", "thrown"}

RetryCall ==
  /\ Finished(rt)
  /\ \E options \in RetryOptionInputs : rt' = RetryBegin(options)
  /\ UNCHANGED <<client, call, pending, ctorCall, hp, th, am, wl, sc>>

FnResolves ==
  /\ rt.status = "calling"
  /\ \E v \in Values : rt' = RetryResolve(rt, MkValue(v, rt.calls))
  /\ UNCHANGED <<client, call, pending, ctorCall, hp, th, am, wl, sc>>

FnRejects ==
  /\ rt.status = "calling"
  /\ \E e \in {MkError(rt.calls, m) : m \in Messages} \cup {FalsyRejection} :
        rt' = RetryReject(rt, e)
  /\ UNCHANGED <<client, call, pending, ctorCall, hp, th, am, wl, sc>>

TimerFires ==
  /\ rt.status = "sleeping"
  /\ rt' = RetryWake(rt)
  /\ UNCHANGED <<client, call, pending, ctorCall, hp, th, am, wl, sc>>

(***************************************************************************)
(* config.ts                                                               *)
(***************************************************************************)
SepoliaRouter == "0xFa907c9ca64B72420f04AFFa4e70619991C6c6e2"

ROUTER_ADDRESSES ==
  (1 :> "") @@ (11155111 :> SepoliaRouter) @@ (42161 :> "") @@ (137 :> "")

getDefaultRouterAddress(chainId) ==
  IF chainId \in DOMAIN ROUTER_ADDRESSES
  THEN Some(ROUTER_ADDRESSES[chainId])
  ELSE None

(***************************************************************************)
(* DefiBrainClient.ts                                                      *)
(***************************************************************************)
NoClient == None

\* JavaScript truthiness of an optional string / an optional number.
TruthyStr(s) == s # None /\ s[1] # ""

TruthyNum(n) == n # None /\ n[1] # 0

\* a || b on optional strings
OrElse(a, b) == IF TruthyStr(a) THEN a ELSE b

\* new DefiBrainClient(config): the fields as assigned by lines 123-130.
ConstructedFields(config) ==
  LET chainId == IF TruthyNum(config.chainId) THEN config.chainId[1] ELSE 1
  IN  [chainId       |-> chainId,
       retryOptions  |-> IF config.retryOptions = None THEN NoOptions
                         ELSE config.retryOptions[1],
       mode          |-> IF config.mode = None THEN "direct" ELSE config.mode[1],
       routerAddress |-> OrElse(config.routerAddress,
                                getDefaultRouterAddress(chainId))]

\* Mutant of ConstructorThrows: only a missing address is rejected, an empty
\* one passes.
ConstructorThrowsOnMissingOnly(c) ==
  c.mode = "managed" /\ c.routerAddress = None

\* The validation of lines 133-139.
ConstructorThrows(c) == c.mode = "managed" /\ ~TruthyStr(c.routerAddress)

\* Mutant of SetModeThrows: setMode accepts a missing router address.
SetModeNeverThrows(mode, routerAddress) == FALSE

\* The validation of setMode, lines 367-369.
SetModeThrows(mode, routerAddress) ==
  mode = "managed" /\ ~TruthyStr(routerAddress)

ChainIdInputs == {0, 1, 5, 11155111}

RouterA == "0xRouterA"

ConfigInputs ==
  [chainId       : {None} \cup {Some(c) : c \in ChainIdInputs},
   mode          : {None, Some("direct"), Some("managed")},
   routerAddress : {None, Some(""), Some(RouterA)},
   retryOptions  : {None} \cup
                   {Some([NoOptions EXCEPT !.maxRetries = Some(n)]) :
                      n \in 1..MaxClientRetries}]

NoCall ==
  [op |-> "none", f |-> IdleFrame, sent |-> 0, seen |-> None, first |-> None]

InFlight == call.f.status \in {"calling", "sleeping"}

Constructor ==
  /\ client = NoClient
  /\ \E config \in ConfigInputs :
        LET c == ConstructedFields(config)
        IN  /\ client' = IF ConstructorThrows(c) THEN NoClient ELSE Some(c)
            /\ ctorCall' = Some([config |-> config, threw |-> ConstructorThrows(c)])
  /\ UNCHANGED <<rt, call, pending, hp, th, am, wl, sc>>

\* Mutant of setChainId: the router address is resolved again for the new
\* chain.
setChainIdResolvesRouter(c, chainId) ==
  [c EXCEPT !.chainId = chainId,
            !.routerAddress = getDefaultRouterAddress(chainId)]

\* setChainId, line 353: this.chainId = chainId and nothing else.
setChainId(c, chainId) == [c EXCEPT !.chainId = chainId]

SetChainId ==
  /\ client # NoClient
  /\ \E chainId \in ChainIdInputs :
        client' = Some(setChainId(client[1], chainId))
  /\ ctorCall' = None
  /\ UNCHANGED <<rt, call, pending, hp, th, am, wl, sc>>

SetMode ==
  /\ client # NoClient
  /\ \E mode \in {"direct", "managed"},
        routerAddress \in {None, Some(""), Some(RouterA)} :
        client' = IF SetModeThrows(mode, routerAddress)
                  THEN client
                  ELSE Some([client[1] EXCEPT !.mode = mode,
                                              !.routerAddress = routerAddress])
  /\ ctorCall' = None
  /\ UNCHANGED <<rt, call, pending, hp, th, am, wl, sc>>

\* The endpoint of each API method.
Endpoint ==
  [optimizeYield         |-> "/optimize-yield",
   findOptimalSwap       |-> "/swap/optimal",
   executeAction         |-> "/execute",
   executeBatch          |-> "/execute-batch",
   getAvailableProtocols |-> "/protocols/available",
   healthCheck           |-> "/health",
   getUsageStats         |-> "/usage"]

ApiOps == DOMAIN Endpoint

\* Mutant of UsesRetry: every method is wrapped in retry().
UsesRetryEverywhere(op) == TRUE

\* The methods whose body is wrapped in retry(..., this.retryOptions).
UsesRetry(op) == op \in {"optimizeYield", "findOptimalSwap"}

\* What a request carries of the client's configuration: the chain id (body
\* or query string) and, for the yield and execute endpoints, the mode and
\* the router address (an undefined routerAddress is dropped by
\* JSON.stringify).
Request(op, c) ==
  [endpoint      |-> Endpoint[op],
   chainId       |-> IF op \in {"healthCheck", "getUsageStats"} THEN None
                     ELSE Some(c.chainId),
   mode          |-> IF op \in {"optimizeYield", "executeAction", "executeBatch"}
                     THEN Some(c.mode) ELSE None,
   routerAddress |-> IF op \in {"optimizeYield", "executeAction", "executeBatch"}
                     THEN c.routerAddress ELSE None]

\* Mutant of BatchRejectedLocally: the precondition check is missing.
BatchNeverRejected(c) == FALSE

\* executeBatch, lines 235-237.
BatchRejectedLocally(c) == c.mode # "managed" \/ ~TruthyStr(c.routerAddress)

BatchPreconditionMessage ==
  <<"Batch", "execution", "requires", "managed", "mode", "with", "routerAddress">>

\* The per-endpoint fallback text of a non-2xx response.
DefaultMessage ==
  [optimizeYield         |-> <<"Failed", "to", "optimize", "yield">>,
   findOptimalSwap       |-> <<"Failed", "to", "find", "optimal", "swap">>,
   executeAction         |-> <<"Failed", "to", "execute", "action">>,
   executeBatch          |-> <<"Failed", "to", "execute", "batch">>,
   getAvailableProtocols |-> <<"Failed", "to", "get", "protocols">>,
   healthCheck           |-> <<"Health", "check", "failed">>,
   getUsageStats         |-> <<"Failed", "to", "get", "usage", "stats">>]

\* The message of the SyntaxError raised by response.json() on a body that
\* is not JSON.
JsonParseMessage == <<"Unexpected", "token">>

\* a || b on optional messages (the empty string is falsy)
MsgOrElse(a, b) == IF a # None /\ a[1] # <<>> THEN a ELSE b

\* The message of the Error thrown for a non-2xx response whose body is
\* [parseable, nested (error.error?.message), top (error.message)].
ErrorMessage(op, body) ==
  IF op = "healthCheck" THEN DefaultMessage[op]
  ELSE IF ~body.parseable
  THEN IF UsesRetry(op) THEN DefaultMessage[op]   \* .catch(() => ({}))
       ELSE JsonParseMessage
  ELSE MsgOrElse(body.nested, MsgOrElse(body.top, Some(DefaultMessage[op])))[1]

\* ethers and JSON, as free constructors: distinct inputs give distinct
\* encodings.
EmptyBytes == <<"0x">>

JsonStringify(params) == IF params = None THEN None ELSE Some(<<"json", params[1]>>)

ToUtf8Bytes(str) == <<"utf8", str>>

AbiEncode(types, values) == <<"abi", types, values>>

EncodeFunctionData(name, args) == <<"calldata", name, args>>

\* Mutant of encodeParams: the fallback of the catch is the encoding of an
\* empty object rather than "0x".
encodeParamsFallbackObject(params) ==
  LET jsonString == JsonStringify(params)
  IN  IF jsonString = None
      THEN AbiEncode(<<"bytes">>, <<ToUtf8Bytes(<<"json", "{}">>)>>)
      ELSE AbiEncode(<<"bytes">>, <<ToUtf8Bytes(jsonString[1])>>)

\* encodeParams: toUtf8Bytes throws on the undefined that JSON.stringify
\* returns for undefined params, and the catch yields "0x".
encodeParams(params) ==
  LET jsonString == JsonStringify(params)
  IN  IF jsonString = None
      THEN EmptyBytes
      ELSE AbiEncode(<<"bytes">>, <<ToUtf8Bytes(jsonString[1])>>)

\* buildManagedTransaction; its guard on routerAddress is the caller's.
buildManagedTransaction(c, protocol, action, params) ==
  [to    |-> c.routerAddress[1],
   data  |-> EncodeFunctionData("executeAction",
                                <<protocol, action, encodeParams(params)>>),
   value |-> Some("0")]

\* Mutant of RewriteApplies: a response is rewritten only when the backend
\* sent no transaction.
RewriteAppliesInverted(c, result) ==
  c.mode = "managed" /\ result.transaction = None /\ TruthyStr(c.routerAddress)

\* optimizeYield, line 168.
RewriteApplies(c, result) ==
  c.mode = "managed" /\ result.transaction # None /\ TruthyStr(c.routerAddress)

\* optimizeYield, lines 165-176.
OptimizeYieldResult(c, result) ==
  IF RewriteApplies(c, result)
  THEN [result EXCEPT !.transaction =
          Some(buildManagedTransaction(c, result.protocol, result.action,
                                       result.params))]
  ELSE result

\* a || b || c on optional numbers
NumOr(a, b, d) == IF TruthyNum(a) THEN a[1] ELSE IF TruthyNum(b) THEN b[1] ELSE d

\* getUsageStats, lines 313-319.
UsageStatsResult(data) ==
  LET st(k) == IF data.stats = None THEN None ELSE data.stats[1][k]
  IN  [callsToday     |-> NumOr(st("callsToday"), st("requestsToday"), 0),
       callsThisMonth |-> NumOr(st("callsThisMonth"), st("requestsThisMonth"), 0),
       limit          |-> NumOr(st("limit"), None, 100),
       resetDate      |-> IF TruthyStr(st("resetDate")) THEN st("resetDate")[1]
                          ELSE "now"]

\* What each method returns for the parsed body of a 2xx response.
ApiResult(op, c, data) ==
  CASE op = "optimizeYield"         -> OptimizeYieldResult(c, data)
    [] op = "getAvailableProtocols" -> data.protocols
    [] op = "getUsageStats"         -> UsageStatsResult(data)
    [] OTHER                        -> data

(***************************************************************************)
(* The backend as seen through fetch.                                      *)
(***************************************************************************)
TransportMessages == {<<"NetworkError">>, <<"fetch", "failed">>}

ErrorBodies ==
  [parseable : {TRUE},
   nested    : {None, Some(<<>>), Some(<<"Invalid", "asset">>)},
   top       : {None, Some(<<"upstream", "ETIMEDOUT">>)}]
  \cup {[parseable |-> FALSE, nested |-> None, top |-> None]}

BackendTransaction ==
  [to    |-> "0xProtocol",
   data  |-> EncodeFunctionData("supply", <<"asset", "amount">>),
   value |-> Some("0x0")]

OkBodies(op) ==
  CASE op = "optimizeYield" ->
         {[protocol |-> "aave", action |-> "supply",
           params |-> Some("amount=1"), transaction |-> Some(BackendTransaction)],
          [protocol |-> "pendle", action |-> "swap",
           params |-> None, transaction |-> Some(BackendTransaction)],
          [protocol |-> "aave", action |-> "supply",
           params |-> Some("amount=1"), transaction |-> None]}
    [] op = "getAvailableProtocols" -> {[protocols |-> {"aave", "pendle"}]}
    [] op = "getUsageStats" ->
         {[stats |-> None],
          [stats |-> Some([callsToday |-> None, requestsToday |-> Some(7),
                           callsThisMonth |-> Some(0), requestsThisMonth |-> None,
                           limit |-> None, resetDate |-> None])],
          [stats |-> Some([callsToday |-> Some(3), requestsToday |-> Some(9),
                           callsThisMonth |-> Some(40), requestsThisMonth |-> None,
                           limit |-> Some(500), resetDate |-> Some("2026-01-01")])]}
    [] OTHER -> {[status |-> "pending"]}

(***************************************************************************)
(* One API call at a time, interleaved with the setters.  call.f is the    *)
(* retry frame of the call (for a method without retry: one invocation),   *)
(* call.sent counts the HTTP requests the call has issued, pending is the  *)
(* request that awaits its response, call.seen is the configuration        *)
(* optimizeYield read when it processed a 2xx response and call.first is   *)
(* the request of the first attempt of a call made through retry(), kept   *)
(* while the call is in flight.                                            *)
(***************************************************************************)
\* The record of the first request ends with the call.
WhileInFlight(c) ==
  IF c.f.status \in {"calling", "sleeping"} THEN c ELSE [c EXCEPT !.first = None]

DirectBegin == [IdleFrame EXCEPT !.status = "calling", !.calls = 1]

DirectReject(f, e) ==
  [f EXCEPT !.status = "thrown", !.thrown = Some(e),
            !.lastError = Some(e), !.trace = Append(@, e)]

DirectResolve(f, v) == [f EXCEPT !.status = "returned", !.result = Some(v)]

OnReject(op, f, e) ==
  IF UsesRetry(op) THEN RetryReject(f, e) ELSE DirectReject(f, e)

OnResolve(op, f, v) ==
  IF UsesRetry(op) THEN RetryResolve(f, v) ELSE DirectResolve(f, v)

\* A method is invoked: precondition check, then the first request.
Begin(op) ==
  /\ client # NoClient
  /\ ~InFlight
  /\ ctorCall' = None
  /\ UNCHANGED <<rt, client, hp, th, am, wl, sc>>
  /\ LET c == client[1]
     IN  IF op = "executeBatch" /\ BatchRejectedLocally(c)
         THEN /\ call' = [NoCall EXCEPT
                            !.op = op,
                            !.f = [IdleFrame EXCEPT
                                     !.status = "thrown",
                                     !.thrown = Some(MkError(0, BatchPreconditionMessage))]]
              /\ pending' = None
         ELSE LET f == IF UsesRetry(op) THEN RetryBegin(c.retryOptions)
                       ELSE DirectBegin
              IN  /\ call' = [NoCall EXCEPT
                                !.op = op, !.f = f,
                                !.sent = IF f.status = "calling" THEN 1 ELSE 0,
                                !.first = IF UsesRetry(op) /\ f.status = "calling"
                                          THEN Some(Request(op, c)) ELSE None]
                  /\ pending' = IF f.status = "calling"
                                    THEN Some(Request(op, c)) ELSE None

OptimizeYield == Begin("optimizeYield")

FindOptimalSwap == Begin("findOptimalSwap")

ExecuteAction == Begin("executeAction")

ExecuteBatch == Begin("executeBatch")

GetAvailableProtocols == Begin("getAvailableProtocols")

HealthCheck == Begin("healthCheck")

GetUsageStats == Begin("getUsageStats")

\* fetch rejects: a transport error.
FetchRejects ==
  /\ call.f.status = "calling"
  /\ \E msg \in TransportMessages :
        call' = WhileInFlight([call EXCEPT !.f =
                   OnReject(call.op, @, MkError(call.f.calls, msg))])
  /\ pending' = None
  /\ UNCHANGED <<rt, client, ctorCall, hp, th, am, wl, sc>>

\* A non-2xx response.
RespondsNotOk ==
  /\ call.f.status = "calling"
  /\ \E body \in ErrorBodies :
        call' = WhileInFlight([call EXCEPT !.f =
                   OnReject(call.op, @,
                            MkError(call.f.calls, ErrorMessage(call.op, body)))])
  /\ pending' = None
  /\ UNCHANGED <<rt, client, ctorCall, hp, th, am, wl, sc>>

\* A 2xx response whose body is JSON (Some(data)) or not (None).
RespondsOk ==
  /\ call.f.status = "calling"
  /\ \E body \in {None} \cup {Some(d) : d \in OkBodies(call.op)} :
        IF body = None
        THEN call' = WhileInFlight([call EXCEPT !.f =
                        OnReject(call.op, @, MkError(call.f.calls, JsonParseMessage))])
        ELSE call' = WhileInFlight([call EXCEPT
                        !.f = OnResolve(call.op, @,
                                MkValue(ApiResult(call.op, client[1], body[1]),
                                        call.f.calls)),
                        !.seen = IF call.op = "optimizeYield"
                                 THEN Some([mode |-> client[1].mode,
                                            routerAddress |-> client[1].routerAddress])
                                 ELSE None])
  /\ pending' = None
  /\ UNCHANGED <<rt, client, ctorCall, hp, th, am, wl, sc>>

\* The backoff timer of a retried call resolves: next attempt, next request.
BackoffElapses ==
  /\ call.f.status = "sleeping"
  /\ LET f == RetryWake(call.f)
     IN  /\ call' = WhileInFlight(
                      [call EXCEPT !.f = f,
                                   !.sent = IF f.status = "calling" THEN @ + 1 ELSE @])
         /\ pending' = IF f.status = "calling"
                        THEN Some(Request(call.op, client[1]))
                        ELSE None
  /\ UNCHANGED <<rt, client, ctorCall, hp, th, am, wl, sc>>

(***************************************************************************)
(* utils/ValidationHelper.ts: the validators.                              *)
(*                                                                         *)
(* An address string is kept as what /^0x[a-fA-F0-9]{40}$/ can tell apart: *)
(* its first two characters, and how many hexadecimal and how many other   *)
(* characters follow.  An amount string is a sequence of characters.       *)
(***************************************************************************)
AddressLength == 40

ValidAddress == [prefix |-> "0x", hexDigits |-> AddressLength, otherChars |-> 0]

isValidAddress(address) ==
  /\ address.prefix = "0x"
  /\ address.hexDigits = AddressLength
  /\ address.otherChars = 0

DigitChars == <<"0", "1", "2", "3", "4", "5", "6", "7", "8", "9">>

\* The value of a string of decimal digits.
RECURSIVE DecimalValue(_)
DecimalValue(s) ==
  IF s = <<>> THEN 0
  ELSE LET last == CHOOSE i \in 1..Len(DigitChars) : DigitChars[i] = s[Len(s)]
       IN  10 * DecimalValue(SubSeq(s, 1, Len(s) - 1)) + (last - 1)

\* BigInt(string) over the characters 0-9 . - + : None is the SyntaxError.
\* The empty string is 0n; a sign needs digits after it.
BigInt(s) ==
  IF s = <<>> THEN Some(0)
  ELSE LET signed == s[1] \in {"-", "+"}
           body   == IF signed THEN Tail(s) ELSE s
           IsDigit(c) == \E i \in 1..Len(DigitChars) : DigitChars[i] = c
       IN  IF body # <<>> /\ \A i \in 1..Len(body) : IsDigit(body[i])
           THEN Some(IF s[1] = "-" THEN 0 - DecimalValue(body)
                                   ELSE DecimalValue(body))
           ELSE None

isValidAmount(amount) ==
  LET num == BigInt(amount) IN num # None /\ num[1] > 0

(***************************************************************************)
(* helpers/*.ts: the protocol helpers.  Every operation has the same       *)
(* shape; HelperOps tabulates, per operation, what its body does:          *)
(*   a, b, amount  whether the caller passes that argument ("required",    *)
(*                 "optional", "absent"); a and b are the address          *)
(*                 arguments in the order of the signature,                *)
(*   checks        the validate* calls, in order; an optional check is     *)
(*                 `if (x) validateAddress(x, ...)`,                       *)
(*   txCheck       the guard on this.txHelper: "ifExecute", "always" or    *)
(*                 "none"; txFirst when it precedes the validation,        *)
(*   method        the client method called,                               *)
(*   guard         the protocol the response must name, if checked,        *)
(*   route         whether options.existingRoute replaces the lookup,      *)
(*   hasExecute    whether there is an execute flag.                       *)
(* Morpho's marketId and the swap helpers' slippage are passed through     *)
(* unvalidated and are not kept.                                           *)
(***************************************************************************)
Chk(arg, kind, name, optional) ==
  [arg |-> arg, kind |-> kind, name |-> name, optional |-> optional]

AaveOp(op) ==
  [helper |-> "aave", op |-> op,
   a |-> "required", b |-> "absent", amount |-> "required",
   checks |-> <<Chk("a", "address", "Asset", FALSE),
                Chk("amount", "amount", "Amount", FALSE)>>,
   txCheck |-> "ifExecute", txFirst |-> FALSE,
   method |-> "executeAction", guard |-> None, route |-> FALSE,
   hasExecute |-> TRUE]

PendleInfoOp(op, name) ==
  [helper |-> "pendle", op |-> op,
   a |-> "required", b |-> "absent", amount |-> "absent",
   checks |-> <<Chk("a", "address", name, FALSE)>>,
   txCheck |-> "none", txFirst |-> FALSE,
   method |-> "executeAction", guard |-> None, route |-> FALSE,
   hasExecute |-> FALSE]

PendleTxOp(op, name) ==
  [helper |-> "pendle", op |-> op,
   a |-> "required", b |-> "absent", amount |-> "required",
   checks |-> <<Chk("a", "address", name, FALSE),
                Chk("amount", "amount", "Amount", FALSE)>>,
   txCheck |-> "always", txFirst |-> FALSE,
   method |-> "executeAction", guard |-> None, route |-> FALSE,
   hasExecute |-> TRUE]

PendleOptimizeOp ==
  [helper |-> "pendle", op |-> "optimizeYieldWithPendle",
   a |-> "required", b |-> "absent", amount |-> "required",
   checks |-> <<Chk("a", "address", "Asset", FALSE),
                Chk("amount", "amount", "Amount", FALSE)>>,
   txCheck |-> "none", txFirst |-> FALSE,
   method |-> "optimizeYield",
   guard |-> Some([protocol |-> "pendle", name |-> "Pendle",
                   text |-> "Best protocol is not"]),
   route |-> FALSE, hasExecute |-> FALSE]

\* supply validates the amount only; repay also an onBehalfOf that is given;
\* withdraw and borrow a receiver and an onBehalfOf that are given.
MorphoOp(op) ==
  [helper |-> "morpho", op |-> op,
   a |-> "optional",
   b |-> IF op \in {"withdraw", "borrow"} THEN "optional" ELSE "absent",
   amount |-> "required",
   checks |->
     CASE op = "supply" -> <<Chk("amount", "amount", "Assets", FALSE)>>
       [] op = "repay"  -> <<Chk("amount", "amount", "Assets", FALSE),
                             Chk("a", "address", "OnBehalfOf", TRUE)>>
       [] OTHER         -> <<Chk("amount", "amount", "Assets", FALSE),
                             Chk("a", "address", "Receiver", TRUE),
                             Chk("b", "address", "OnBehalfOf", TRUE)>>,
   txCheck |-> "ifExecute", txFirst |-> TRUE,
   method |-> "executeAction", guard |-> None, route |-> FALSE,
   hasExecute |-> TRUE]

\* The protocol a swap helper asks for and compares with, and the name its
\* error message gives it.
SwapHelperIdentity ==
  [curve   |-> [protocol |-> "curve",   name |-> "Curve"],
   uniswap |-> [protocol |-> "uniswap", name |-> "Uniswap"],
   oneinch |-> [protocol |-> "1inch",   name |-> "1inch"]]

\* findOptimalSwap / findOptimalStableSwap
LookupOp(helper, op) ==
  [helper |-> helper, op |-> op,
   a |-> "required", b |-> "required", amount |-> "required",
   checks |-> <<Chk("a", "address", "TokenIn", FALSE),
                Chk("b", "address", "TokenOut", FALSE),
                Chk("amount", "amount", "Amount", FALSE)>>,
   txCheck |-> "none", txFirst |-> FALSE,
   method |-> "findOptimalSwap",
   guard |-> Some([protocol |-> SwapHelperIdentity[helper].protocol,
                   name |-> SwapHelperIdentity[helper].name,
                   text |-> "Best route is not"]),
   route |-> FALSE, hasExecute |-> FALSE]

\* swap / swapStable: the guard on txHelper, then existingRoute or the lookup.
SwapOp(helper, op, lookup) ==
  [LookupOp(helper, lookup) EXCEPT
     !.op = op, !.txCheck = "ifExecute", !.txFirst = TRUE,
     !.route = TRUE, !.hasExecute = TRUE]

HelperOps ==
  {AaveOp(op) : op \in {"supply", "withdraw", "borrow", "repay"}}
  \cup {PendleOptimizeOp,
        PendleInfoOp("getPTInfo", "PT Address"),
        PendleInfoOp("getYTInfo", "YT Address"),
        PendleInfoOp("estimateYield", "YT Address"),
        PendleTxOp("swapPTtoYT", "PT Address"),
        PendleTxOp("swapYTtoPT", "YT Address"),
        PendleTxOp("redeemPT", "PT Address")}
  \cup {MorphoOp(op) : op \in {"supply", "withdraw", "borrow", "repay"}}
  \cup {LookupOp("curve", "findOptimalStableSwap"),
        SwapOp("curve", "swapStable", "findOptimalStableSwap"),
        LookupOp("uniswap", "findOptimalSwap"),
        SwapOp("uniswap", "swap", "findOptimalSwap"),
        LookupOp("oneinch", "findOptimalSwap"),
        SwapOp("oneinch", "swap", "findOptimalSwap")}

\* Errors of the helpers: what the message says, as three strings.
HelperError(text, name, detail) == [text |-> text, name |-> name, detail |-> detail]

TxHelperNotSet == HelperError("Transaction helper not set", "", "")

ValidationError(c) ==
  HelperError(IF c.kind = "address" THEN "is not a valid Ethereum address"
                                    ELSE "must be a positive number",
              c.name, "")

MismatchError(guard, protocol) == HelperError(guard.text, guard.name, protocol)

\* One validate* call throws.
CheckFails(c, args) ==
  LET v == args[c.arg]
  IN  IF c.optional /\ v = None THEN FALSE
      ELSE IF c.kind = "address" THEN ~isValidAddress(v[1])
      ELSE ~isValidAmount(v[1])

\* The error of the first validate* call that throws, if any.
Validate(o, args) ==
  LET failing == {i \in 1..Len(o.checks) : CheckFails(o.checks[i], args)}
  IN  IF failing = {} THEN None
      ELSE Some(ValidationError(
                  o.checks[CHOOSE i \in failing : \A j \in failing : i <= j]))

\* Mutant of TxMissing: the helper is never required.
TxNeverMissing(h, o, execute) == FALSE

\* The guard on this.txHelper.
TxMissing(h, o, execute) ==
  /\ ~h.txHelper
  /\ \/ o.txCheck = "always"
     \/ o.txCheck = "ifExecute" /\ execute

\* Mutant of ProtocolMismatch: the response is returned whatever it names.
ProtocolNeverMismatch(o, result) == FALSE

\* result.protocol !== '<own protocol>'
ProtocolMismatch(o, result) ==
  o.guard # None /\ result.protocol # o.guard[1].protocol

\* The argument of signAndSend: {to, data, value} of the transaction.
TransactionRequest(tx) == [to |-> tx.to, data |-> tx.data, value |-> tx.value]

MaxHelperHttp == 2

NewHelper(helper, txHelper) ==
  [helper |-> helper, txHelper |-> txHelper, o |-> None,
   args |-> [a |-> None, b |-> None, amount |-> None],
   execute |-> FALSE, existingRoute |-> None, pc |-> "idle", http |-> 0,
   signed |-> <<>>, route |-> None, result |-> None, thrown |-> None]

HelperThrow(h, e) == [h EXCEPT !.pc = "thrown", !.thrown = Some(e)]

\* Mutant of AfterResult: with execute set, a response without a transaction
\* is an error.
AfterResultRequiresTransaction(h, r) ==
  IF h.execute /\ h.txHelper
  THEN IF r.transaction # None
       THEN [h EXCEPT !.pc = "signing", !.route = Some(r),
                      !.signed = Append(@, TransactionRequest(r.transaction[1]))]
       ELSE [HelperThrow(h, HelperError("No transaction", "", ""))
               EXCEPT !.route = Some(r)]
  ELSE [h EXCEPT !.pc = "returned", !.route = Some(r), !.result = Some(r)]

\* With the response (or the existing route) r in hand: sign and send, or
\* return it.  Pendle tests `execute && result.transaction` only; its
\* txHelper is known to be set at that point.
AfterResult(h, r) ==
  IF h.execute /\ r.transaction # None /\ h.txHelper
  THEN [h EXCEPT !.pc = "signing", !.route = Some(r),
                 !.signed = Append(@, TransactionRequest(r.transaction[1]))]
  ELSE [h EXCEPT !.pc = "returned", !.route = Some(r), !.result = Some(r)]

\* An operation up to its first await.
HelperStart(h, o, args, execute, existingRoute) ==
  LET c == [NewHelper(h.helper, h.txHelper) EXCEPT
              !.o = Some(o), !.args = args, !.execute = execute,
              !.existingRoute = existingRoute]
      skipLookup == o.route /\ existingRoute # None
      invalid    == IF skipLookup THEN None ELSE Validate(o, args)
  IN  IF o.txFirst /\ TxMissing(h, o, execute) THEN HelperThrow(c, TxHelperNotSet)
      ELSE IF invalid # None THEN HelperThrow(c, invalid[1])
      ELSE IF TxMissing(h, o, execute) THEN HelperThrow(c, TxHelperNotSet)
      ELSE IF skipLookup THEN AfterResult(c, existingRoute[1])
      ELSE [c EXCEPT !.pc = "client", !.http = 1]

\* The client call resolved with r.
HelperResume(h, r) ==
  IF ProtocolMismatch(h.o[1], r)
  THEN [HelperThrow(h, MismatchError(h.o[1].guard[1], r.protocol))
          EXCEPT !.route = Some(r)]
  ELSE AfterResult(h, r)

(***************************************************************************)
(* One helper object, one operation at a time.                             *)
(***************************************************************************)
\* A valid address and '0x' + '1'.repeat(39).
AddressInputs == {ValidAddress, [ValidAddress EXCEPT !.hexDigits = @ - 1]}

AmountInputs == {<<"1", "0">>, <<"0">>, <<"1", ".", "5">>, <<"-", "5">>}

ArgInputs(kind, values) ==
  CASE kind = "required" -> {Some(v) : v \in values}
    [] kind = "optional" -> {None} \cup {Some(v) : v \in values}
    [] OTHER             -> {None}

\* What the client method can resolve with.
HelperResults(o) ==
  [protocol    : IF o.guard = None THEN {o.helper}
                 ELSE {"aave", "pendle", "morpho", "curve", "uniswap", "1inch"},
   transaction : {None, Some([to |-> "0xcontract", data |-> "0xdata",
                              value |-> "0x0", gasLimit |-> "21000"])},
   txHash      : {None}]

HelperBusy == hp.pc \in {"client", "signing"}

Invoke(helper, op) ==
  /\ hp.helper = helper
  /\ ~HelperBusy
  /\ LET o == CHOOSE x \in HelperOps : x.helper = helper /\ x.op = op
     IN  \E a \in ArgInputs(o.a, AddressInputs),
            b \in ArgInputs(o.b, AddressInputs),
            amount \in ArgInputs(o.amount, AmountInputs),
            execute \in IF o.hasExecute THEN BOOLEAN ELSE {FALSE},
            existingRoute \in IF o.route
                              THEN {None} \cup {Some(r) : r \in HelperResults(o)}
                              ELSE {None} :
           hp' = HelperStart(hp, o, [a |-> a, b |-> b, amount |-> amount],
                             execute, existingRoute)
  /\ UNCHANGED <<rt, client, call, pending, ctorCall, th, am, wl, sc>>

AaveSupply == Invoke("aave", "supply")

AaveWithdraw == Invoke("aave", "withdraw")

AaveBorrow == Invoke("aave", "borrow")

AaveRepay == Invoke("aave", "repay")

PendleOptimizeYield == Invoke("pendle", "optimizeYieldWithPendle")

PendleGetPTInfo == Invoke("pendle", "getPTInfo")

PendleGetYTInfo == Invoke("pendle", "getYTInfo")

PendleEstimateYield == Invoke("pendle", "estimateYield")

PendleSwapPTtoYT == Invoke("pendle", "swapPTtoYT")

PendleSwapYTtoPT == Invoke("pendle", "swapYTtoPT")

PendleRedeemPT == Invoke("pendle", "redeemPT")

MorphoSupply == Invoke("morpho", "supply")

MorphoWithdraw == Invoke("morpho", "withdraw")

MorphoBorrow == Invoke("morpho", "borrow")

MorphoRepay == Invoke("morpho", "repay")

CurveFindOptimalStableSwap == Invoke("curve", "findOptimalStableSwap")

CurveSwapStable == Invoke("curve", "swapStable")

UniswapFindOptimalSwap == Invoke("uniswap", "findOptimalSwap")

UniswapSwap == Invoke("uniswap", "swap")

OneInchFindOptimalSwap == Invoke("oneinch", "findOptimalSwap")

OneInchSwap == Invoke("oneinch", "swap")

\* setTransactionHelper; the record of a finished call is dropped.
SetTransactionHelper ==
  /\ hp' = IF HelperBusy THEN [hp EXCEPT !.txHelper = TRUE]
           ELSE NewHelper(hp.helper, TRUE)
  /\ UNCHANGED <<rt, client, call, pending, ctorCall, th, am, wl, sc>>

\* The client method resolves.
HelperClientResolves ==
  /\ hp.pc = "client"
  /\ \E r \in HelperResults(hp.o[1]) : hp' = HelperResume(hp, r)
  /\ UNCHANGED <<rt, client, call, pending, ctorCall, th, am, wl, sc>>

\* The client method rejects.
HelperClientRejects ==
  /\ hp.pc = "client"
  /\ hp' = HelperThrow(hp, HelperError("API Error", "", ""))
  /\ UNCHANGED <<rt, client, call, pending, ctorCall, th, am, wl, sc>>

\* The client retries the request (optimizeYield and findOptimalSwap only).
HelperClientRetries ==
  /\ hp.pc = "client"
  /\ UsesRetry(hp.o[1].method)
  /\ hp.http < MaxHelperHttp
  /\ hp' = [hp EXCEPT !.http = @ + 1]
  /\ UNCHANGED <<rt, client, call, pending, ctorCall, th, am, wl, sc>>

\* signAndSend resolves with the hash: {...result, txHash}.
SignAndSendResolves ==
  /\ hp.pc = "signing"
  /\ \E txHash \in {"0xhash"} :
        hp' = [hp EXCEPT !.pc = "returned",
                         !.result = Some([hp.route[1] EXCEPT
                                            !.txHash = Some(txHash)])]
  /\ UNCHANGED <<rt, client, call, pending, ctorCall, th, am, wl, sc>>

SignAndSendRejects ==
  /\ hp.pc = "signing"
  /\ hp' = HelperThrow(hp, HelperError("Transaction failed", "",
                                       "User rejected the request"))
  /\ UNCHANGED <<rt, client, call, pending, ctorCall, th, am, wl, sc>>

(***************************************************************************)
(* utils/TransactionHelper.ts.  th is the frame of the one call in         *)
(* progress on the helper: its position pc, the requests it has made to    *)
(* the wallet transport, the responses it acts on (accounts, poll), and    *)
(* for waitForConfirmation the time elapsed since startTime.  th.event is  *)
(* how the frame got where it is: by a call, a resolved request, a         *)
(* rejected request or the poll timer.                                     *)
(*                                                                         *)
(* A hexadecimal quantity of the JSON-RPC interface is [hex |-> n]: a      *)
(* non-empty string, hence truthy, that parseInt(_, 16) turns into n.      *)
(***************************************************************************)
DefaultConfirmations == 1

DefaultTimeout == 300000

PollInterval == 2000

MaxBlock == 3

Hex(n) == [hex |-> n]

ParseInt16(h) == h.hex

IdleTx ==
  [op |-> "none", pc |-> "idle", event |-> "none", tx |-> None,
   requests |-> <<>>, accounts |-> None,
   confirmations |-> 0, timeout |-> 0, elapsed |-> 0,
   poll |-> [receipt |-> None, currentBlock |-> None],
   result |-> None, thrown |-> None]

TxBusy == th.pc \in {"accounts", "sending", "receipt", "block", "sleeping"}

\* `Transaction failed: ${error.message || error}`
TransactionFailed(message) == [text |-> "Transaction failed", detail |-> message]

\* `Transaction confirmation timeout after ${timeout}ms`
TimeoutError(timeout) ==
  [text |-> "Transaction confirmation timeout after", detail |-> timeout]

\* value || '0x0', gas: gasLimit || undefined, and the undefined keys
\* deleted: an absent key is None here.  gasPrice, maxFeePerGas,
\* maxPriorityFeePerGas and nonce are copied the way gasLimit is.
PrepareTransaction(tx) ==
  [to    |-> tx.to,
   data  |-> tx.data,
   value |-> IF TruthyStr(tx.value) THEN tx.value ELSE Some("0x0"),
   gas   |-> IF TruthyStr(tx.gasLimit) THEN tx.gasLimit ELSE None]

\* Mutant of NoAccount: only a missing answer counts as no account.
NoAccountOnlyWhenMissing(accounts) == accounts = None

\* !accounts || accounts.length === 0
NoAccount(accounts) == accounts = None \/ Len(accounts[1]) = 0

\* signAndSend after eth_accounts resolved.
AfterAccounts(f, accounts) ==
  IF NoAccount(accounts)
  THEN [f EXCEPT !.pc = "thrown", !.event = "resolved",
                 !.accounts = Some(accounts),
                 !.thrown = Some(TransactionFailed(
                     "No wallet connected. Please connect your wallet first."))]
  ELSE [f EXCEPT !.pc = "sending", !.event = "resolved",
                 !.accounts = Some(accounts),
                 !.requests = Append(@, [method |-> "eth_sendTransaction",
                                         params |-> Some(PrepareTransaction(f.tx[1]))])]

\* while (Date.now() - startTime < timeout) ... throw
PollLoopHead(f) ==
  IF f.elapsed < f.timeout
  THEN [f EXCEPT !.pc = "receipt",
                 !.poll = [receipt |-> None, currentBlock |-> None]]
  ELSE [f EXCEPT !.pc = "timedout",
                 !.poll = [receipt |-> None, currentBlock |-> None],
                 !.thrown = Some(TimeoutError(f.timeout))]

\* receipt && receipt.blockNumber
Mined(receipt) == receipt # None /\ receipt[1].blockNumber # None

\* Mutant of EnoughConfirmations: a mined receipt is enough.
AlwaysEnoughConfirmations(f, receipt, currentBlock) == TRUE

\* confirmationsCount >= confirmations
EnoughConfirmations(f, receipt, currentBlock) ==
  ParseInt16(currentBlock) - ParseInt16(receipt.blockNumber[1]) >= f.confirmations

\* Mutant of PollFailed: a failed lookup ends the wait.
PollFailedThrows(f) ==
  [f EXCEPT !.pc = "timedout", !.event = "rejected",
            !.thrown = Some(TimeoutError(f.timeout))]

\* catch (error) { /* Continue waiting */ }
PollFailed(f) == [f EXCEPT !.pc = "sleeping", !.event = "rejected"]

\* eth_getTransactionReceipt resolved.
AfterReceipt(f, receipt) ==
  IF Mined(receipt)
  THEN [f EXCEPT !.pc = "block", !.event = "resolved", !.poll.receipt = receipt]
  ELSE [f EXCEPT !.pc = "sleeping", !.event = "resolved", !.poll.receipt = receipt]

\* The TransactionReceipt returned, lines 114-121; parseInt(undefined, 16)
\* is NaN, here None.
ReturnedReceipt(receipt) ==
  [transactionHash |-> receipt.transactionHash,
   blockNumber     |-> ParseInt16(receipt.blockNumber[1]),
   status          |-> IF receipt.status = None THEN None
                       ELSE Some(ParseInt16(receipt.status[1]))]

\* Mutant of AfterBlockNumber: a receipt with status 0 is raised as an error.
AfterBlockNumberChecksStatus(f, currentBlock) ==
  LET receipt == f.poll.receipt[1]
  IN  IF EnoughConfirmations(f, receipt, currentBlock)
      THEN IF receipt.status = Some(Hex(0))
           THEN [f EXCEPT !.pc = "thrown", !.event = "resolved",
                          !.poll.currentBlock = Some(currentBlock),
                          !.thrown = Some(TransactionFailed("reverted"))]
           ELSE [f EXCEPT !.pc = "confirmed", !.event = "resolved",
                          !.poll.currentBlock = Some(currentBlock),
                          !.result = Some(ReturnedReceipt(receipt))]
      ELSE [f EXCEPT !.pc = "sleeping", !.event = "resolved",
                     !.poll.currentBlock = Some(currentBlock)]

\* eth_blockNumber resolved.
AfterBlockNumber(f, currentBlock) ==
  LET receipt == f.poll.receipt[1]
  IN  IF EnoughConfirmations(f, receipt, currentBlock)
      THEN [f EXCEPT !.pc = "confirmed", !.event = "resolved",
                     !.poll.currentBlock = Some(currentBlock),
                     !.result = Some(ReturnedReceipt(receipt))]
      ELSE [f EXCEPT !.pc = "sleeping", !.event = "resolved",
                     !.poll.currentBlock = Some(currentBlock)]

(***************************************************************************)
(* The wallet transport and the clock.                                     *)
(***************************************************************************)
\* How long a request, or the lateness of a timer, can take.
RequestTimes == {0, PollInterval \div 2}

OptOr(v, default) == IF v = None THEN default ELSE v[1]

SignAndSend ==
  /\ ~TxBusy
  /\ \E tx \in [to : {"0xcontract"}, data : {"0xdata"},
               value : {None, Some(""), Some("0x5")},
               gasLimit : {None, Some("21000")}] :
        th' = [IdleTx EXCEPT !.op = "signAndSend", !.pc = "accounts",
                             !.event = "call", !.tx = Some(tx),
                             !.requests = <<[method |-> "eth_accounts",
                                             params |-> None]>>]
  /\ UNCHANGED <<rt, client, call, pending, ctorCall, hp, am, wl, sc>>

AccountsResolves ==
  /\ th.pc = "accounts"
  /\ \E accounts \in {None, Some(<<>>), Some(<<"0xaccount">>)} :
        th' = AfterAccounts(th, accounts)
  /\ UNCHANGED <<rt, client, call, pending, ctorCall, hp, am, wl, sc>>

SendTransactionResolves ==
  /\ th.pc = "sending"
  /\ th' = [th EXCEPT !.pc = "returned", !.event = "resolved",
                      !.result = Some("0xhash")]
  /\ UNCHANGED <<rt, client, call, pending, ctorCall, hp, am, wl, sc>>

\* eth_accounts or eth_sendTransaction rejects; an empty message gives the
\* error itself in the text.
SendRequestRejects ==
  /\ th.pc \in {"accounts", "sending"}
  /\ \E message \in {"User rejected the request", ""} :
        th' = [th EXCEPT !.pc = "thrown", !.event = "rejected",
                         !.thrown = Some(TransactionFailed(
                                      IF message # "" THEN message ELSE "Error"))]
  /\ UNCHANGED <<rt, client, call, pending, ctorCall, hp, am, wl, sc>>

WaitForConfirmation ==
  /\ ~TxBusy
  /\ \E confirmations \in {None, Some(0), Some(2)},
        timeout \in {None, Some(0), Some(3000), Some(2 * PollInterval)} :
        th' = PollLoopHead([IdleTx EXCEPT
                 !.op = "waitForConfirmation", !.event = "call",
                 !.confirmations = OptOr(confirmations, DefaultConfirmations),
                 !.timeout = OptOr(timeout, DefaultTimeout)])
  /\ UNCHANGED <<rt, client, call, pending, ctorCall, hp, am, wl, sc>>

ReceiptResolves ==
  /\ th.pc = "receipt"
  /\ \E receipt \in {None,
                      Some([transactionHash |-> "0xhash", blockNumber |-> None,
                            status |-> None])}
                     \cup {Some([transactionHash |-> "0xhash",
                                 blockNumber |-> Some(Hex(1)),
                                 status |-> Some(Hex(status))]) : status \in {0, 1}},
        d \in RequestTimes :
        th' = AfterReceipt([th EXCEPT !.elapsed = @ + d], receipt)
  /\ UNCHANGED <<rt, client, call, pending, ctorCall, hp, am, wl, sc>>

BlockNumberResolves ==
  /\ th.pc = "block"
  /\ \E currentBlock \in {Hex(n) : n \in 1..MaxBlock}, d \in RequestTimes :
        th' = AfterBlockNumber([th EXCEPT !.elapsed = @ + d], currentBlock)
  /\ UNCHANGED <<rt, client, call, pending, ctorCall, hp, am, wl, sc>>

PollRequestRejects ==
  /\ th.pc \in {"receipt", "block"}
  /\ \E d \in RequestTimes : th' = PollFailed([th EXCEPT !.elapsed = @ + d])
  /\ UNCHANGED <<rt, client, call, pending, ctorCall, hp, am, wl, sc>>

\* setTimeout(resolve, 2000) fires, not earlier than asked.
PollTimerFires ==
  /\ th.pc = "sleeping"
  /\ \E d \in RequestTimes :
        th' = PollLoopHead([th EXCEPT !.elapsed = @ + PollInterval + d,
                                      !.event = "timer"])
  /\ UNCHANGED <<rt, client, call, pending, ctorCall, hp, am, wl, sc>>

(***************************************************************************)
(* utils/ValidationHelper.ts: formatAmount and parseAmount, on strings as  *)
(* sequences of characters.                                                *)
(***************************************************************************)
MaxAmountLen == 4

MaxDecimals == 2

\* const [whole, decimal = ''] = amount.split('.'): the pieces before the
\* first point and between the first and the second.
SplitAmount(amount) ==
  LET IndexOf(s) ==
        IF \E i \in 1..Len(s) : s[i] = "."
        THEN CHOOSE i \in 1..Len(s) :
               s[i] = "." /\ \A j \in 1..(i - 1) : s[j] # "."
        ELSE 0
      dot == IndexOf(amount)
  IN  IF dot = 0 THEN [whole |-> amount, decimal |-> <<>>]
      ELSE LET rest == SubSeq(amount, dot + 1, Len(amount))
               next == IndexOf(rest)
           IN  [whole   |-> SubSeq(amount, 1, dot - 1),
                decimal |-> IF next = 0 THEN rest ELSE SubSeq(rest, 1, next - 1)]

PadEnd(s, n, c) ==
  IF Len(s) >= n THEN s ELSE s \o [i \in 1..(n - Len(s)) |-> c]

\* Mutant of PadStart: the remainder is not padded.
PadStartNothing(s, n, c) == s

PadStart(s, n, c) ==
  IF Len(s) >= n THEN s ELSE [i \in 1..(n - Len(s)) |-> c] \o s

\* s.replace(/0+$/, '')
RECURSIVE TrimTrailingZeros(_)
TrimTrailingZeros(s) ==
  IF s # <<>> /\ s[Len(s)] = "0"
  THEN TrimTrailingZeros(SubSeq(s, 1, Len(s) - 1))
  ELSE s

RECURSIVE NatToString(_)
NatToString(n) ==
  IF n < 10 THEN <<DigitChars[n + 1]>>
  ELSE NatToString(n \div 10) \o <<DigitChars[(n % 10) + 1]>>

\* BigInt.prototype.toString
BigIntToString(n) == IF n < 0 THEN <<"-">> \o NatToString(0 - n) ELSE NatToString(n)

\* formatAmount: the catch returns the input unchanged.  BigInt division
\* truncates toward zero and % takes the sign of the dividend.
formatAmount(amount, decimals) ==
  LET amountBigInt == BigInt(amount)
      divisor      == Pow(10, decimals)
      BigIntDiv(a, b) == IF a >= 0 THEN a \div b ELSE 0 - ((0 - a) \div b)
  IN  IF amountBigInt = None THEN amount
      ELSE LET whole     == BigIntDiv(amountBigInt[1], divisor)
               remainder == amountBigInt[1] - divisor * whole
           IN  IF remainder = 0 THEN BigIntToString(whole)
               ELSE BigIntToString(whole) \o <<".">>
                      \o TrimTrailingZeros(
                           PadStart(BigIntToString(remainder), decimals, "0"))

\* parseAmount: None is the 'Invalid amount format' error.
parseAmount(amount, decimals) ==
  IF amount = <<>> THEN None
  ELSE LET parts == SplitAmount(amount)
       IN  IF parts.whole = <<>> THEN None
           ELSE LET padded        == PadEnd(parts.decimal, decimals, "0")
                    decimalPadded == SubSeq(padded, 1, Min(decimals, Len(padded)))
                    whole    == BigInt(parts.whole)
                    fraction == BigInt(IF decimalPadded = <<>> THEN <<"0">>
                                       ELSE decimalPadded)
                IN  IF whole = None \/ fraction = None THEN None
                    ELSE Some(BigIntToString(whole[1] * Pow(10, decimals)
                                             + fraction[1]))

(***************************************************************************)
(* A caller parses a string and formats the result.                        *)
(***************************************************************************)
AmountStrings ==
  UNION {[1..n -> {"0", "1", "5", ".", "-"}] : n \in 0..MaxAmountLen}

NoAmount ==
  [pc |-> "idle", x |-> <<>>, decimals |-> 0, parsed |-> None, formatted |-> None]

ParseAmount ==
  /\ am.pc = "input"
  /\ LET parsed == parseAmount(am.x, am.decimals)
     IN  am' = [am EXCEPT !.pc = IF parsed = None THEN "thrown" ELSE "parsed",
                          !.parsed = parsed]
  /\ UNCHANGED <<rt, client, call, pending, ctorCall, hp, th, wl, sc>>

FormatAmount ==
  /\ am.pc = "parsed"
  /\ am' = [am EXCEPT !.pc = "formatted",
                      !.formatted = Some(formatAmount(am.parsed[1], am.decimals))]
  /\ UNCHANGED <<rt, client, call, pending, ctorCall, hp, th, wl, sc>>

(***************************************************************************)
(* WalletHelper (utils/WalletHelper.ts): the provider and the event        *)
(* subscriptions.  wl.ethereum is window.ethereum, wl.provider is          *)
(* this.provider ("none" is null/undefined).  A subscription is the        *)
(* handler closure of one onAccountChange / onNetworkChange call together  *)
(* with its cleanup closure: target is the provider the handler was        *)
(* registered on ("none" for the empty closure), registered whether the    *)
(* handler is still in that provider's listener list.  cleaned, removal    *)
(* and invokedAfter record that the cleanup has run, that it ran while     *)
(* this.provider had removeListener, and that the callback was invoked     *)
(* after that.                                                             *)
(***************************************************************************)
MaxSubscriptions == 2

\* What a WalletProvider object offers: on and removeListener are optional.
ProviderCaps ==
  [metamask |-> [on |-> TRUE,  removeListener |-> TRUE],
   injected |-> [on |-> TRUE,  removeListener |-> TRUE],
   legacy   |-> [on |-> TRUE,  removeListener |-> FALSE],
   minimal  |-> [on |-> FALSE, removeListener |-> FALSE]]

NewWallet(ethereum) ==
  [ethereum |-> ethereum, provider |-> "none", chainId |-> 1,
   connecting |-> FALSE, subs |-> <<>>]

\* !this.provider || !this.provider.on
CannotSubscribe(w) == w.provider = "none" \/ ~ProviderCaps[w.provider].on

\* onAccountChange / onNetworkChange
Subscribe(w, event) ==
  [w EXCEPT !.subs =
     Append(@, [event        |-> event,
                target       |-> IF CannotSubscribe(w) THEN "none" ELSE w.provider,
                registered   |-> ~CannotSubscribe(w),
                cleaned      |-> FALSE,
                removal      |-> FALSE,
                invokedAfter |-> FALSE])]

\* this.provider?.removeListener, read when the cleanup runs
CanRemove(w) == w.provider # "none" /\ ProviderCaps[w.provider].removeListener

\* The cleanup closure of subscription i: removeListener on this.provider
\* removes the handler if it is registered there and does nothing otherwise.
RunCleanup(w, i) ==
  LET s == w.subs[i]
  IN  IF s.target = "none" THEN [w EXCEPT !.subs[i].cleaned = TRUE]
      ELSE IF CanRemove(w)
      THEN [w EXCEPT !.subs[i].cleaned = TRUE,
                     !.subs[i].removal = TRUE,
                     !.subs[i].registered =
                        IF s.target = w.provider THEN FALSE ELSE @]
      ELSE [w EXCEPT !.subs[i].cleaned = TRUE]

\* Provider p emits event: the handlers registered on it run.
Listening(w, p, event) ==
  {i \in 1..Len(w.subs) :
     w.subs[i].target = p /\ w.subs[i].registered /\ w.subs[i].event = event}

\* The callbacks of the subscriptions in `called` are invoked.
Invoked(w, called) ==
  [w EXCEPT !.subs = [i \in 1..Len(w.subs) |->
     IF i \in called /\ w.subs[i].removal
     THEN [w.subs[i] EXCEPT !.invokedAfter = TRUE]
     ELSE w.subs[i]]]

\* handler of onAccountChange: accounts && accounts.length > 0
EmitAccountsChanged(w, p, accounts) ==
  IF Len(accounts) > 0 THEN Invoked(w, Listening(w, p, "accountsChanged")) ELSE w

\* handler of onNetworkChange: this.chainId = parseInt(chainIdHex, 16)
EmitChainChanged(w, p, chainIdHex) ==
  LET called == Listening(w, p, "chainChanged")
  IN  IF called = {} THEN w
      ELSE [Invoked(w, called) EXCEPT !.chainId = ParseInt16(chainIdHex)]

(***************************************************************************)
(* The page, the caller and the wallets.                                   *)
(***************************************************************************)
ChainIdHexInputs == {Hex(1), Hex(5)}

\* Another wallet takes over window.ethereum, or it goes away.
EthereumChanges ==
  /\ \E e \in (DOMAIN ProviderCaps \cup {"none"}) \ {wl.ethereum} :
        wl' = [wl EXCEPT !.ethereum = e]
  /\ UNCHANGED <<rt, client, call, pending, ctorCall, hp, th, am, sc>>

\* connect() up to its first await: this.provider = window.ethereum.
Connect ==
  /\ ~wl.connecting
  /\ wl.ethereum # "none"
  /\ wl' = [wl EXCEPT !.provider = wl.ethereum, !.connecting = TRUE]
  /\ UNCHANGED <<rt, client, call, pending, ctorCall, hp, th, am, sc>>

\* getWalletInfo() up to its first await: the same assignment.
GetWalletInfo ==
  /\ ~wl.connecting
  /\ wl.ethereum # "none"
  /\ wl' = [wl EXCEPT !.provider = wl.ethereum, !.connecting = TRUE]
  /\ UNCHANGED <<rt, client, call, pending, ctorCall, hp, th, am, sc>>

\* The requests of connect() / getWalletInfo() end: with a chain id, or
\* before it (no account, a rejected request).
ConnectCompletes ==
  /\ wl.connecting
  /\ \/ \E chainIdHex \in ChainIdHexInputs :
          wl' = [wl EXCEPT !.connecting = FALSE,
                           !.chainId = ParseInt16(chainIdHex)]
     \/ wl' = [wl EXCEPT !.connecting = FALSE]
  /\ UNCHANGED <<rt, client, call, pending, ctorCall, hp, th, am, sc>>

OnAccountChange ==
  /\ Len(wl.subs) < MaxSubscriptions
  /\ wl' = Subscribe(wl, "accountsChanged")
  /\ UNCHANGED <<rt, client, call, pending, ctorCall, hp, th, am, sc>>

OnNetworkChange ==
  /\ Len(wl.subs) < MaxSubscriptions
  /\ wl' = Subscribe(wl, "chainChanged")
  /\ UNCHANGED <<rt, client, call, pending, ctorCall, hp, th, am, sc>>

\* The caller runs a cleanup closure, for the first time or again.
Cleanup ==
  /\ \E i \in 1..Len(wl.subs) : wl' = RunCleanup(wl, i)
  /\ UNCHANGED <<rt, client, call, pending, ctorCall, hp, th, am, sc>>

AccountsChanged ==
  /\ \E p \in DOMAIN ProviderCaps, accounts \in {<<>>, <<"0xaccount">>} :
        wl' = EmitAccountsChanged(wl, p, accounts)
  /\ UNCHANGED <<rt, client, call, pending, ctorCall, hp, th, am, sc>>

ChainChanged ==
  /\ \E p \in DOMAIN ProviderCaps, chainIdHex \in ChainIdHexInputs :
        wl' = EmitChainChanged(wl, p, chainIdHex)
  /\ UNCHANGED <<rt, client, call, pending, ctorCall, hp, th, am, sc>>

(***************************************************************************)
(* contracts/core/PermissionManager.sol and contracts/core/DeFiRouter.sol. *)
(* sc.pm and sc.router are the storage of the two deployed contracts.  A   *)
(* transaction is one action; a transaction that reverts leaves the        *)
(* storage as it was.  sc.last is the record of the last transaction: its  *)
(* function, sender and arguments, the revert message ("" when it did not  *)
(* revert), what it returned and the BatchExecuted event it emitted (the   *)
(* other events are not kept).  An adapter is an external contract: of a   *)
(* call to it only the (success, data) pair it returns is modelled, which  *)
(* is part of the transaction's input.                                     *)
(***************************************************************************)
\* require(actions.length <= 20, ...)
MaxActionsPerBatch == 20

\* The batches explored are all those of at most MaxBatchLen actions, and
\* uniform ones of MaxActionsPerBatch and MaxActionsPerBatch + 1 actions.
MaxBatchLen == 2

ZeroAddress == "0x0"

Accounts == {"0xA", "0xB"}

\* enum Role
Roles == {"GUEST", "USER", "OPERATOR", "ADMIN"}

\* enum Permission
Permissions ==
  {"VIEW_ONLY", "EXECUTE_ACTION", "REGISTER_ADAPTER", "MANAGE_PERMISSIONS",
   "MANAGE_ASSETS"}

ProtocolIds == {"aave", "curve"}

\* PermissionManager's constructor with a non-zero _admin.  A mapping to
\* bool is the set of the keys mapped to true; a role never assigned is
\* GUEST, the enum's zero.
NewPermissionManager(_admin) ==
  [userRoles |-> [a \in Accounts |-> IF a = _admin THEN "ADMIN" ELSE "GUEST"],
   whitelist |-> {},
   blacklist |-> {},
   admin     |-> _admin]

\* DeFiRouter's constructor, deployed by sender.
NewDeFiRouter(sender) ==
  [adapters |-> [p \in ProtocolIds |-> ZeroAddress], admin |-> sender]

\* PermissionManager.hasPermission: the blacklist, then the role.  The
\* whitelist is not read.
hasPermission(pm, user, permission) ==
  IF user \in pm.blacklist THEN FALSE
  ELSE LET role == pm.userRoles[user]
       IN  CASE role = "ADMIN"    -> TRUE
             [] role = "OPERATOR" -> permission \in {"VIEW_ONLY", "EXECUTE_ACTION",
                                                     "REGISTER_ADAPTER"}
             [] role = "USER"     -> permission \in {"VIEW_ONLY", "EXECUTE_ACTION"}
             [] OTHER             -> permission = "VIEW_ONLY"

NoTransaction ==
  [fn |-> "none", sender |-> ZeroAddress, arg |-> ZeroAddress,
   protocolId |-> "", actions |-> <<>>, revert |-> "",
   successes |-> <<>>, results |-> <<>>, batchExecuted |-> None]

\* A transaction t with its require statements in order, each a pair of a
\* condition and a message: the first that fails reverts, otherwise the
\* storage becomes `effect`.
Transact(t, requires, effect) ==
  LET failing == {i \in 1..Len(requires) : ~requires[i][1]}
  IN  IF failing = {}
      THEN [effect EXCEPT !.last = t]
      ELSE [sc EXCEPT !.last =
              [t EXCEPT !.revert =
                 requires[CHOOSE i \in failing : \A j \in failing : i <= j][2],
                        !.successes = <<>>, !.results = <<>>,
                        !.batchExecuted = None]]

\* A call of a PermissionManager function with one address argument.
PermissionManagerCall(fn, sender, user) ==
  [NoTransaction EXCEPT !.fn = fn, !.sender = sender, !.arg = user]

PermissionManagerAssignRole ==
  /\ \E sender \in Accounts, user \in Accounts \cup {ZeroAddress}, role \in Roles :
        sc' = Transact(PermissionManagerCall("assignRole", sender, user),
                       <<<<sender = sc.pm.admin, "PermissionManager: Only admin">>,
                         <<user # ZeroAddress, "PermissionManager: Invalid user address">>>>,
                       [sc EXCEPT !.pm.userRoles =
                          [a \in Accounts |-> IF a = user THEN role ELSE @[a]]])
  /\ UNCHANGED <<rt, client, call, pending, ctorCall, hp, th, am, wl>>

AddToWhitelist ==
  /\ \E sender \in Accounts, user \in Accounts \cup {ZeroAddress} :
        sc' = Transact(PermissionManagerCall("addToWhitelist", sender, user),
                       <<<<sender = sc.pm.admin, "PermissionManager: Only admin">>,
                         <<user # ZeroAddress, "PermissionManager: Invalid user address">>>>,
                       [sc EXCEPT !.pm.whitelist = @ \cup {user}])
  /\ UNCHANGED <<rt, client, call, pending, ctorCall, hp, th, am, wl>>

RemoveFromWhitelist ==
  /\ \E sender \in Accounts, user \in Accounts \cup {ZeroAddress} :
        sc' = Transact(PermissionManagerCall("removeFromWhitelist", sender, user),
                       <<<<sender = sc.pm.admin, "PermissionManager: Only admin">>>>,
                       [sc EXCEPT !.pm.whitelist = @ \ {user}])
  /\ UNCHANGED <<rt, client, call, pending, ctorCall, hp, th, am, wl>>

AddToBlacklist ==
  /\ \E sender \in Accounts, user \in Accounts \cup {ZeroAddress} :
        sc' = Transact(PermissionManagerCall("addToBlacklist", sender, user),
                       <<<<sender = sc.pm.admin, "PermissionManager: Only admin">>,
                         <<user # ZeroAddress, "PermissionManager: Invalid user address">>>>,
                       [sc EXCEPT !.pm.blacklist = @ \cup {user}])
  /\ UNCHANGED <<rt, client, call, pending, ctorCall, hp, th, am, wl>>

RemoveFromBlacklist ==
  /\ \E sender \in Accounts, user \in Accounts \cup {ZeroAddress} :
        sc' = Transact(PermissionManagerCall("removeFromBlacklist", sender, user),
                       <<<<sender = sc.pm.admin, "PermissionManager: Only admin">>>>,
                       [sc EXCEPT !.pm.blacklist = @ \ {user}])
  /\ UNCHANGED <<rt, client, call, pending, ctorCall, hp, th, am, wl>>

\* PermissionManager.changeAdmin: admin = newAdmin and
\* userRoles[newAdmin] = Role.ADMIN; the role of the sender is not touched.
PermissionManagerChangeAdmin ==
  /\ \E sender \in Accounts, newAdmin \in Accounts \cup {ZeroAddress} :
        sc' = Transact(PermissionManagerCall("changeAdmin", sender, newAdmin),
                       <<<<sender = sc.pm.admin, "PermissionManager: Only admin">>,
                         <<newAdmin # ZeroAddress,
                           "PermissionManager: Invalid admin address">>>>,
                       [sc EXCEPT !.pm.admin = newAdmin,
                                  !.pm.userRoles =
                                    [a \in Accounts |->
                                       IF a = newAdmin THEN "ADMIN" ELSE @[a]]])
  /\ UNCHANGED <<rt, client, call, pending, ctorCall, hp, th, am, wl>>

\* DeFiRouter.registerAdapter: onlyAdmin, the two argument checks, then the
\* permission check `hasPermission(...) || msg.sender == admin`.
RegisterAdapter ==
  /\ \E sender \in Accounts, protocolId \in {"", "aave"},
        adapterAddress \in {ZeroAddress, "0xAdapter"} :
        sc' = Transact([NoTransaction EXCEPT !.fn = "registerAdapter",
                                             !.sender = sender,
                                             !.arg = adapterAddress,
                                             !.protocolId = protocolId],
                       <<<<sender = sc.router.admin, "DeFiRouter: Only admin">>,
                         <<adapterAddress # ZeroAddress,
                           "DeFiRouter: Invalid adapter address">>,
                         <<protocolId # "", "DeFiRouter: Protocol ID is required">>,
                         <<\/ hasPermission(sc.pm, sender, "REGISTER_ADAPTER")
                           \/ sender = sc.router.admin,
                           "DeFiRouter: Insufficient permissions to register adapter">>>>,
                       [sc EXCEPT !.router.adapters =
                          [p \in ProtocolIds |->
                             IF p = protocolId THEN adapterAddress ELSE @[p]]])
  /\ UNCHANGED <<rt, client, call, pending, ctorCall, hp, th, am, wl>>

DeFiRouterChangeAdmin ==
  /\ \E sender \in Accounts, newAdmin \in Accounts \cup {ZeroAddress} :
        sc' = Transact([NoTransaction EXCEPT !.fn = "DeFiRouter.changeAdmin",
                                             !.sender = sender, !.arg = newAdmin],
                       <<<<sender = sc.router.admin, "DeFiRouter: Only admin">>,
                         <<newAdmin # ZeroAddress, "DeFiRouter: Invalid admin address">>>>,
                       [sc EXCEPT !.router.admin = newAdmin])
  /\ UNCHANGED <<rt, client, call, pending, ctorCall, hp, th, am, wl>>

\* One action of a batch, with what the adapter returns if it is called.
ActionInputs ==
  {[protocolId |-> "aave",  success |-> TRUE,  data |-> "0xresult"],
   [protocolId |-> "aave",  success |-> FALSE, data |-> "0xerror"],
   [protocolId |-> "curve", success |-> TRUE,  data |-> "0xresult"]}

\* DeFiRouter.executeAction: a failed adapter call reverts with the
\* adapter's data, or with the router's message when there is none.
DeFiRouterExecuteAction ==
  /\ \E sender \in Accounts, a \in ActionInputs :
        LET adapterAddress == sc.router.adapters[a.protocolId]
        IN  sc' = Transact([NoTransaction EXCEPT !.fn = "executeAction",
                                                 !.sender = sender,
                                                 !.protocolId = a.protocolId,
                                                 !.actions = <<a>>,
                                                 !.successes = <<a.success>>,
                                                 !.results = <<a.data>>],
                           <<<<hasPermission(sc.pm, sender, "EXECUTE_ACTION"),
                               "DeFiRouter: Insufficient permissions">>,
                             <<adapterAddress # ZeroAddress,
                               "DeFiRouter: Protocol not registered">>,
                             <<a.success, a.data>>>>,
                           sc)
  /\ UNCHANGED <<rt, client, call, pending, ctorCall, hp, th, am, wl>>

\* Mutant of executeBatch: every action is counted as a success.
executeBatchCountsAll(router, sender, actions) ==
  LET Registered(i) == router.adapters[actions[i].protocolId] # ZeroAddress
  IN  [successes |-> [i \in 1..Len(actions) |->
                        Registered(i) /\ actions[i].success],
       results   |-> [i \in 1..Len(actions) |->
                        IF Registered(i) THEN actions[i].data
                        ELSE "DeFiRouter: Protocol not registered"],
       batchExecuted |-> Some([user |-> sender, actionCount |-> Len(actions),
                               successCount |-> Len(actions)])]

\* The loop of DeFiRouter.executeBatch, lines 123-168: successCount counts
\* up from 0 as the loop goes through the actions.
executeBatch(router, sender, actions) ==
  LET Registered(i) == router.adapters[actions[i].protocolId] # ZeroAddress
      successes == [i \in 1..Len(actions) |-> Registered(i) /\ actions[i].success]
      successCount[i \in 0..Len(actions)] ==
        IF i = 0 THEN 0
        ELSE IF successes[i] THEN successCount[i - 1] + 1
        ELSE successCount[i - 1]
  IN  [successes |-> successes,
       results   |-> [i \in 1..Len(actions) |->
                        IF Registered(i) THEN actions[i].data
                        ELSE "DeFiRouter: Protocol not registered"],
       batchExecuted |-> Some([user |-> sender, actionCount |-> Len(actions),
                               successCount |-> successCount[Len(actions)]])]

BatchInputs ==
  UNION {[1..n -> ActionInputs] : n \in 0..MaxBatchLen}
  \cup {[i \in 1..n |-> [protocolId |-> "aave", success |-> TRUE,
                          data |-> "0xresult"]] :
          n \in {MaxActionsPerBatch, MaxActionsPerBatch + 1}}

DeFiRouterExecuteBatch ==
  /\ \E sender \in Accounts, actions \in BatchInputs :
        LET out == executeBatch(sc.router, sender, actions)
        IN  sc' = Transact([NoTransaction EXCEPT !.fn = "executeBatch",
                                                 !.sender = sender,
                                                 !.actions = actions,
                                                 !.successes = out.successes,
                                                 !.results = out.results,
                                                 !.batchExecuted = out.batchExecuted],
                           <<<<hasPermission(sc.pm, sender, "EXECUTE_ACTION"),
                               "DeFiRouter: Insufficient permissions">>,
                             <<Len(actions) > 0,
                               "DeFiRouter: Actions array cannot be empty">>,
                             <<Len(actions) <= MaxActionsPerBatch,
                               "DeFiRouter: Maximum 20 actions per batch">>>>,
                           sc)
  /\ UNCHANGED <<rt, client, call, pending, ctorCall, hp, th, am, wl>>

(***************************************************************************)
(* The specifications: one per component, over the same variables.        *)
(***************************************************************************)
Init ==
  /\ rt = IdleFrame
  /\ client = NoClient
  /\ call = NoCall
  /\ pending = None
  /\ ctorCall = None
  /\ hp = NewHelper("aave", FALSE)
  /\ th = IdleTx
  /\ am = NoAmount
  /\ wl = NewWallet("none")
  /\ sc = [pm |-> NewPermissionManager("0xA"), router |-> NewDeFiRouter("0xA"),
           last |-> NoTransaction]

Next ==
  \/ Constructor \/ SetChainId \/ SetMode
  \/ OptimizeYield \/ FindOptimalSwap \/ ExecuteAction \/ ExecuteBatch
  \/ GetAvailableProtocols \/ HealthCheck \/ GetUsageStats
  \/ FetchRejects \/ RespondsNotOk \/ RespondsOk \/ BackoffElapses

Spec == Init /\ [][Next]_vars

InitRetry ==
  /\ rt = IdleFrame
  /\ client = NoClient
  /\ call = NoCall
  /\ pending = None
  /\ ctorCall = None
  /\ hp = NewHelper("aave", FALSE)
  /\ th = IdleTx
  /\ am = NoAmount
  /\ wl = NewWallet("none")
  /\ sc = [pm |-> NewPermissionManager("0xA"), router |-> NewDeFiRouter("0xA"),
           last |-> NoTransaction]

NextRetry == RetryCall \/ FnResolves \/ FnRejects \/ TimerFires

SpecRetry == InitRetry /\ [][NextRetry]_vars

InitHelper ==
  /\ rt = IdleFrame
  /\ client = NoClient
  /\ call = NoCall
  /\ pending = None
  /\ ctorCall = None
  /\ \E helper \in {o.helper : o \in HelperOps}, txHelper \in BOOLEAN :
        hp = NewHelper(helper, txHelper)
  /\ th = IdleTx
  /\ am = NoAmount
  /\ wl = NewWallet("none")
  /\ sc = [pm |-> NewPermissionManager("0xA"), router |-> NewDeFiRouter("0xA"),
           last |-> NoTransaction]

NextHelper ==
  \/ AaveSupply \/ AaveWithdraw \/ AaveBorrow \/ AaveRepay
  \/ PendleOptimizeYield \/ PendleGetPTInfo \/ PendleGetYTInfo
  \/ PendleEstimateYield \/ PendleSwapPTtoYT \/ PendleSwapYTtoPT
  \/ PendleRedeemPT
  \/ MorphoSupply \/ MorphoWithdraw \/ MorphoBorrow \/ MorphoRepay
  \/ CurveFindOptimalStableSwap \/ CurveSwapStable
  \/ UniswapFindOptimalSwap \/ UniswapSwap
  \/ OneInchFindOptimalSwap \/ OneInchSwap
  \/ SetTransactionHelper
  \/ HelperClientResolves \/ HelperClientRejects \/ HelperClientRetries
  \/ SignAndSendResolves \/ SignAndSendRejects

SpecHelper == InitHelper /\ [][NextHelper]_vars

InitTx ==
  /\ rt = IdleFrame
  /\ client = NoClient
  /\ call = NoCall
  /\ pending = None
  /\ ctorCall = None
  /\ hp = NewHelper("aave", FALSE)
  /\ th = IdleTx
  /\ am = NoAmount
  /\ wl = NewWallet("none")
  /\ sc = [pm |-> NewPermissionManager("0xA"), router |-> NewDeFiRouter("0xA"),
           last |-> NoTransaction]

NextTx ==
  \/ SignAndSend \/ AccountsResolves \/ SendTransactionResolves
  \/ SendRequestRejects
  \/ WaitForConfirmation \/ ReceiptResolves \/ BlockNumberResolves
  \/ PollRequestRejects \/ PollTimerFires

SpecTx == InitTx /\ [][NextTx]_vars

\* Every transport request eventually completes and the poll timer
\* eventually fires.
TxFairness ==
  /\ WF_vars(AccountsResolves \/ SendRequestRejects)
  /\ WF_vars(SendTransactionResolves \/ SendRequestRejects)
  /\ WF_vars(ReceiptResolves \/ BlockNumberResolves \/ PollRequestRejects)
  /\ WF_vars(PollTimerFires)

SpecTxLive == SpecTx /\ TxFairness

InitAmount ==
  /\ rt = IdleFrame
  /\ client = NoClient
  /\ call = NoCall
  /\ pending = None
  /\ ctorCall = None
  /\ hp = NewHelper("aave", FALSE)
  /\ th = IdleTx
  /\ \E x \in AmountStrings, decimals \in 0..MaxDecimals :
        am = [NoAmount EXCEPT !.pc = "input", !.x = x, !.decimals = decimals]
  /\ wl = NewWallet("none")
  /\ sc = [pm |-> NewPermissionManager("0xA"), router |-> NewDeFiRouter("0xA"),
           last |-> NoTransaction]

NextAmount == ParseAmount \/ FormatAmount

SpecAmount == InitAmount /\ [][NextAmount]_vars

InitWallet ==
  /\ rt = IdleFrame
  /\ client = NoClient
  /\ call = NoCall
  /\ pending = None
  /\ ctorCall = None
  /\ hp = NewHelper("aave", FALSE)
  /\ th = IdleTx
  /\ am = NoAmount
  /\ \E e \in DOMAIN ProviderCaps \cup {"none"} : wl = NewWallet(e)
  /\ sc = [pm |-> NewPermissionManager("0xA"), router |-> NewDeFiRouter("0xA"),
           last |-> NoTransaction]

NextWallet ==
  \/ EthereumChanges \/ Connect \/ GetWalletInfo \/ ConnectCompletes
  \/ OnAccountChange \/ OnNetworkChange \/ Cleanup
  \/ AccountsChanged \/ ChainChanged

SpecWallet == InitWallet /\ [][NextWallet]_vars

\* Both contracts deployed: the PermissionManager with any account as its
\* admin, the router by any account.
InitContracts ==
  /\ rt = IdleFrame
  /\ client = NoClient
  /\ call = NoCall
  /\ pending = None
  /\ ctorCall = None
  /\ hp = NewHelper("aave", FALSE)
  /\ th = IdleTx
  /\ am = NoAmount
  /\ wl = NewWallet("none")
  /\ \E _admin \in Accounts, deployer \in Accounts :
        sc = [pm |-> NewPermissionManager(_admin),
              router |-> NewDeFiRouter(deployer),
              last |-> NoTransaction]

\* The PermissionManager contract.
NextPermissions ==
  \/ PermissionManagerAssignRole
  \/ AddToWhitelist \/ RemoveFromWhitelist
  \/ AddToBlacklist \/ RemoveFromBlacklist
  \/ PermissionManagerChangeAdmin

SpecPermissions == InitContracts /\ [][NextPermissions]_vars

\* The DeFiRouter contract, with the PermissionManager functions that write
\* what the router's calls of hasPermission read: roles and blacklist.
NextRouter ==
  \/ PermissionManagerAssignRole
  \/ AddToBlacklist \/ RemoveFromBlacklist
  \/ RegisterAdapter \/ DeFiRouterChangeAdmin
  \/ DeFiRouterExecuteAction \/ DeFiRouterExecuteBatch

SpecRouter == InitContracts /\ [][NextRouter]_vars

(***************************************************************************)
(* Properties of retry().                                                  *)
(***************************************************************************)
\* The claims' own reading of "retryable": an Error object whose message
\* contains one of the configured substrings.
RetryableError(f, e) ==
  /\ e.kind = "Error"
  /\ \E marker \in f.opts.retryableErrors : Includes(e.msg, marker)

NonRetryableError(f, e) ==
  /\ e.kind = "Error"
  /\ \A marker \in f.opts.retryableErrors : ~Includes(e.msg, marker)

AllAttemptsRetryable(f) ==
  \A i \in 1..Len(f.trace) : RetryableError(f, f.trace[i])

\* C1: with maxRetries = n >= 0 and every attempt failing with a retryable
\* error, the operation is invoked at most n+1 times, retry throws only after
\* the (n+1)-th invocation, and what it throws is the very error raised by
\* that last invocation.
C1_ExhaustionThrowsLastError ==
  (rt.opts.maxRetries >= 0 /\ AllAttemptsRetryable(rt)) =>
     /\ rt.calls <= rt.opts.maxRetries + 1
     /\ rt.status # "returned" => rt.result = None
     /\ rt.status = "thrown" =>
          /\ rt.calls = rt.opts.maxRetries + 1
          /\ Len(rt.trace) = rt.calls
          /\ rt.thrown = Some(rt.trace[rt.calls])
          /\ rt.thrown[1].id = rt.calls

C1_Witness ==
  /\ rt.status = "thrown"
  /\ rt.opts.maxRetries = 2
  /\ AllAttemptsRetryable(rt)
  /\ rt.calls = 3
  /\ rt.trace[1].msg # rt.trace[3].msg

\* C2: when the first j attempts fail with retryable errors (j <= maxRetries)
\* and attempt j+1 succeeds, retry returns the value of that attempt, the
\* operation has been invoked exactly j+1 times, and a frame that holds a
\* result never goes on to another attempt or wait.
C2_SuccessReturnsImmediately ==
  rt.result # None =>
     LET j == Len(rt.trace)
     IN  /\ rt.status = "returned"
         /\ j <= rt.opts.maxRetries
         /\ rt.calls = j + 1
         /\ rt.result[1].by = j + 1
         /\ Len(rt.delays) = j
         /\ rt.thrown = None

C2_Witness ==
  /\ rt.status = "returned"
  /\ Len(rt.trace) = 2
  /\ AllAttemptsRetryable(rt)
  /\ rt.calls = 3
  /\ rt.result = Some(MkValue("success", 3))

\* C3: an attempt (first or later) that fails with an Error whose message
\* contains none of the retryable substrings ends the call: that same error
\* is thrown, no wait follows it and the operation is not invoked again.
C3_NonRetryableFailsFast ==
  \A i \in 1..Len(rt.trace) :
     NonRetryableError(rt, rt.trace[i]) =>
        /\ i = Len(rt.trace)
        /\ rt.status = "thrown"
        /\ rt.thrown = Some(rt.trace[i])
        /\ rt.calls = i
        /\ Len(rt.delays) = i - 1

C3_Witness ==
  /\ Len(rt.trace) = 2
  /\ RetryableError(rt, rt.trace[1])
  /\ NonRetryableError(rt, rt.trace[2])
  /\ rt.opts.maxRetries > 1
  /\ rt.status = "thrown"

ClientPolicy == MergeOptions(client[1].retryOptions)

\* The failures of the call's requests so far: transport errors and non-2xx
\* responses, in order.
Failures == call.f.trace

\* C5: executeAction and executeBatch issue at most one HTTP request per call
\* and take no backoff wait; when that request fails the error is thrown to
\* the caller at once, whatever retryOptions the client holds.  No other
\* method than optimizeYield and findOptimalSwap issues a second request, and
\* those two do: a retryable failure with retries left is followed by a wait.
C5_ExecuteNeverRetried ==
  /\ call.op \in {"executeAction", "executeBatch"} =>
        /\ call.sent <= 1
        /\ call.f.calls <= 1
        /\ call.f.delays = <<>>
        /\ call.f.status # "sleeping"
        /\ Failures # <<>> =>
              /\ Len(Failures) = 1
              /\ call.f.status = "thrown"
              /\ call.f.thrown = Some(Failures[1])
  /\ call.op \in ApiOps \ {"optimizeYield", "findOptimalSwap"} => call.sent <= 1
  /\ (/\ call.op \in {"optimizeYield", "findOptimalSwap"}
      /\ call.f.status = "thrown"
      /\ Failures[Len(Failures)].kind = "Error"
      /\ \E marker \in ClientPolicy.retryableErrors :
            Includes(Failures[Len(Failures)].msg, marker))
       => Len(Failures) = ClientPolicy.maxRetries + 1

C5_Witness ==
  /\ call.op = "executeAction"
  /\ call.f.status = "thrown"
  /\ call.sent = 1
  /\ call.f.thrown[1].msg = <<"NetworkError">>
  /\ client[1].retryOptions # NoOptions
  /\ ClientPolicy.maxRetries = 1

\* C6: every API call of a client configured with retryOptions is retried when
\* it fails with a network error: no call ends by throwing a transport error
\* that is retryable under the client's policy while retries remain.
C6_EveryCallRetried ==
  (/\ call.op \in ApiOps
   /\ client # NoClient
   /\ client[1].retryOptions # NoOptions
   /\ call.f.status = "thrown"
   /\ Failures # <<>>
   /\ Failures[Len(Failures)].msg \in TransportMessages
   /\ \E marker \in ClientPolicy.retryableErrors :
         Includes(Failures[Len(Failures)].msg, marker))
    => Len(Failures) = ClientPolicy.maxRetries + 1

\* C7: new DefiBrainClient with mode 'managed' throws when no (non-empty)
\* routerAddress is given and the configured chain has no non-empty default
\* (no entry, or an empty-string entry); with a routerAddress given or a
\* non-empty default it succeeds, in managed mode, and the given address, else
\* the default, is the configured router address.
C7_ManagedConstructor ==
  ctorCall # None =>
    LET config     == ctorCall[1].config
        chain      == IF config.chainId \in {None, Some(0)} THEN 1
                      ELSE config.chainId[1]
        given      == config.routerAddress \notin {None, Some("")}
        hasDefault == chain \in DOMAIN ROUTER_ADDRESSES /\ ROUTER_ADDRESSES[chain] # ""
    IN  config.mode = Some("managed") =>
          IF ~given /\ ~hasDefault
          THEN ctorCall[1].threw /\ client = NoClient
          ELSE /\ ~ctorCall[1].threw
               /\ client # NoClient
               /\ client[1].mode = "managed"
               /\ client[1].chainId = chain
               /\ client[1].routerAddress =
                    IF given THEN config.routerAddress
                    ELSE Some(ROUTER_ADDRESSES[chain])

C7_Witness ==
  /\ ctorCall # None
  /\ ctorCall[1].threw
  /\ ctorCall[1].config.mode = Some("managed")
  /\ ctorCall[1].config.chainId = Some(1)
  /\ ctorCall[1].config.routerAddress = None
  /\ client = NoClient

\* C8: in every state reached through the constructor and any sequence of
\* setMode and setChainId calls, throwing ones included, mode = 'managed'
\* implies that a non-empty router address is configured.
C8_ManagedHasRouter ==
  (client # NoClient /\ client[1].mode = "managed") =>
     /\ client[1].routerAddress # None
     /\ client[1].routerAddress[1] # ""

C8_Witness ==
  /\ client # NoClient
  /\ ctorCall = None
  /\ client[1].mode = "managed"
  /\ client[1].routerAddress = Some(RouterA)
  /\ client[1].chainId = 1

\* The step that invokes executeBatch: made while mode is 'direct' or while
\* no router address is configured it throws locally and sends nothing,
\* otherwise it sends one request to /execute-batch.
C9_BatchInvocation ==
  (/\ ~InFlight
   /\ call' # call
   /\ call'.op = "executeBatch")
    => IF client[1].mode = "direct" \/ client[1].routerAddress \in {None, Some("")}
       THEN /\ call'.f.status = "thrown"
            /\ call'.f.thrown[1].msg = BatchPreconditionMessage
            /\ call'.sent = 0
            /\ call'.f.calls = 0
            /\ pending' = None
       ELSE /\ call'.f.status = "calling"
            /\ call'.sent = 1
            /\ pending' # None
            /\ pending'[1].endpoint = "/execute-batch"

\* A request to /execute-batch carries managed mode and a router address; an
\* executeBatch call that threw without any response has sent nothing.
C9_BatchRequestIsManaged ==
  /\ (pending # None /\ pending[1].endpoint = "/execute-batch") =>
        /\ pending[1].mode = Some("managed")
        /\ pending[1].routerAddress \notin {None, Some("")}
  /\ (call.op = "executeBatch" /\ call.f.status = "thrown" /\ call.f.trace = <<>>)
        => call.sent = 0

\* C9: both parts: every request to /execute-batch comes from a managed
\* client with a router address, and every executeBatch invocation in direct
\* mode or without router address throws locally without a request.
C9_BatchRejectedLocally ==
  []C9_BatchRequestIsManaged /\ [][C9_BatchInvocation]_vars

C9_Witness ==
  /\ call.op = "executeBatch"
  /\ call.f.status = "thrown"
  /\ call.f.thrown[1].msg = BatchPreconditionMessage
  /\ call.sent = 0
  /\ pending = None
  /\ client[1].mode = "direct"
  /\ client[1].routerAddress = Some(RouterA)
  /\ ctorCall = None

\* C10: an optimizeYield result that is returned with a transaction by a call
\* that found the client in managed mode has transaction.to equal to the
\* configured router address, value '0' and, as call data, the executeAction
\* encoding of the response's protocol, action and byte-encoded params; it is
\* never the transaction the backend sent.
C10_ManagedRewrite ==
  (/\ call.op = "optimizeYield"
   /\ call.f.status = "returned"
   /\ call.seen # None
   /\ call.seen[1].mode = "managed"
   /\ call.f.result[1].value.transaction # None)
    => LET result == call.f.result[1].value
           tx     == result.transaction[1]
       IN  /\ call.seen[1].routerAddress \notin {None, Some("")}
           /\ tx.to = call.seen[1].routerAddress[1]
           /\ tx.value = Some("0")
           /\ tx.data = EncodeFunctionData("executeAction",
                          <<result.protocol, result.action,
                            encodeParams(result.params)>>)
           /\ tx # BackendTransaction

C10_Witness ==
  /\ call.op = "optimizeYield"
  /\ call.f.status = "returned"
  /\ call.seen # None
  /\ call.seen[1].mode = "managed"
  /\ call.f.result[1].value.transaction # None
  /\ call.f.result[1].value.transaction[1].to = SepoliaRouter
  /\ call.f.result[1].value.protocol = "pendle"
  /\ call.f.result[1].by = 2

(***************************************************************************)
(* C11: a managed optimizeYield whose params cannot be encoded.            *)
(***************************************************************************)
\* The managed optimizeYield results whose params encodeParams failed on:
\* the response carried no params, so JSON.stringify gave undefined.
EncodingFailed ==
  /\ call.op = "optimizeYield"
  /\ call.f.status = "returned"
  /\ call.seen # None
  /\ call.seen[1].mode = "managed"
  /\ call.f.result[1].value.transaction # None
  /\ call.f.result[1].value.params = None

\* C11 as stated: in managed mode, when encoding the action parameters
\* fails, the transaction optimizeYield returns has call data equal to the
\* empty byte string '0x'.
C11_CallDataIsEmptyBytes ==
  EncodingFailed => call.f.result[1].value.transaction[1].data = EmptyBytes

\* C11 amended: in managed mode, when encoding the action parameters fails,
\* optimizeYield does not raise an encoding error; only the params bytes
\* degenerate to '0x', and the call data of the returned transaction is the
\* executeAction encoding of the protocol, the action and these empty bytes,
\* which is not '0x'.
C11_ParamsBytesAreEmpty ==
  /\ EncodingFailed =>
        LET result == call.f.result[1].value
            tx     == result.transaction[1]
        IN  /\ tx.data = <<"calldata", "executeAction",
                           <<result.protocol, result.action, <<"0x">> >> >>
            /\ tx.data # EmptyBytes
            /\ tx.to = call.seen[1].routerAddress[1]
  /\ (call.op = "optimizeYield" /\ call.f.status = "thrown") =>
        call.f.thrown[1].msg \in
          TransportMessages \cup {JsonParseMessage}
            \cup {ErrorMessage("optimizeYield", b) : b \in ErrorBodies}

C11_Witness ==
  /\ EncodingFailed
  /\ call.f.result[1].value.protocol = "pendle"
  /\ call.f.result[1].value.transaction[1].to = RouterA

(***************************************************************************)
(* C20: the configured chain id.                                           *)
(***************************************************************************)
\* C20: the client's configured chain id is a positive integer in every
\* reachable state (the constructor and setChainId validate it, and a
\* rejected setChainId leaves the previous chain id in place).
C20_ChainIdPositive ==
  client # NoClient => client[1].chainId \in Nat \ {0}

(***************************************************************************)
(* Properties of the protocol helpers.                                     *)
(***************************************************************************)
\* The caller passed an address or an amount that is not valid.
InvalidArgument(h) ==
  \/ h.args.a # None /\ ~isValidAddress(h.args.a[1])
  \/ h.args.b # None /\ ~isValidAddress(h.args.b[1])
  \/ h.args.amount # None /\ ~isValidAmount(h.args.amount[1])

IsValidationError(e) ==
  e.text \in {"is not a valid Ethereum address", "must be a positive number"}

\* C12: for every operation of every protocol helper, if any address or
\* amount argument passed by the caller is invalid, the operation fails with
\* a validation error before any HTTP request is issued and before any
\* signAndSend.
C12_InvalidArgumentFailsFirst ==
  (hp.o # None /\ InvalidArgument(hp)) =>
    /\ hp.pc = "thrown"
    /\ IsValidationError(hp.thrown[1])
    /\ hp.http = 0
    /\ hp.signed = <<>>

\* C13 as stated: with the execute flag set and no transaction helper the
\* operation fails with 'Transaction helper not set' before any HTTP request;
\* with the flag set, a helper configured and a transaction in the response,
\* signAndSend is called exactly once with that transaction and the hash is
\* merged into the result as txHash.
C13_ExecuteNeedsTxHelper ==
  /\ (hp.o # None /\ hp.o[1].hasExecute /\ hp.execute /\ ~hp.txHelper) =>
        /\ hp.pc = "thrown"
        /\ hp.thrown[1] = TxHelperNotSet
        /\ hp.http = 0
  /\ (hp.o # None /\ hp.o[1].hasExecute /\ hp.execute /\ hp.txHelper
        /\ hp.route # None /\ hp.route[1].transaction # None) =>
        /\ hp.signed = <<TransactionRequest(hp.route[1].transaction[1])>>
        /\ hp.pc = "returned" =>
              \E txHash \in {"0xhash"} :
                 hp.result = Some([hp.route[1] EXCEPT !.txHash = Some(txHash)])

\* C13 amended: with the execute flag set and no transaction helper the
\* operation fails before any HTTP request and before any signAndSend, with
\* 'Transaction helper not set' when its arguments are valid or the helper
\* checks the transaction helper first (Morpho, Curve, Uniswap, OneInch), and
\* with the validation error otherwise (Aave, Pendle); with the flag set, a
\* helper configured and a transaction in a response that passed the
\* protocol guard (or in the existing route), signAndSend is called exactly
\* once with {to, data, value} of that transaction and the returned hash is
\* merged into the result as txHash.
C13_ExecuteNeedsTxHelperOrValidArguments ==
  /\ (hp.o # None /\ hp.o[1].hasExecute /\ hp.execute /\ ~hp.txHelper) =>
        /\ hp.pc = "thrown"
        /\ hp.http = 0
        /\ hp.signed = <<>>
        /\ IF hp.o[1].helper \in {"aave", "pendle"} /\ InvalidArgument(hp)
           THEN IsValidationError(hp.thrown[1])
           ELSE hp.thrown[1] = TxHelperNotSet
  /\ (hp.o # None /\ hp.o[1].hasExecute /\ hp.execute /\ hp.txHelper
        /\ hp.route # None /\ hp.route[1].transaction # None
        /\ (hp.pc = "thrown" => hp.thrown[1].text = "Transaction failed")) =>
        /\ hp.signed = <<[to    |-> hp.route[1].transaction[1].to,
                          data  |-> hp.route[1].transaction[1].data,
                          value |-> hp.route[1].transaction[1].value]>>
        /\ hp.pc \in {"signing", "returned", "thrown"}
        /\ hp.pc = "returned" =>
              \E txHash \in {"0xhash"} :
                 hp.result = Some([hp.route[1] EXCEPT !.txHash = Some(txHash)])
  /\ Len(hp.signed) <= 1

C13_Witness ==
  /\ hp.helper = "aave"
  /\ hp.execute
  /\ hp.pc = "returned"
  /\ hp.http = 1
  /\ hp.signed = <<[to |-> "0xcontract", data |-> "0xdata", value |-> "0x0"]>>
  /\ hp.result[1].txHash = Some("0xhash")

\* C14: the route lookup of a swap helper (UniswapHelper.findOptimalSwap,
\* OneInchHelper.findOptimalSwap, CurveHelper.findOptimalStableSwap) never
\* returns a backend response whose protocol differs from the helper's own:
\* it throws an error naming the expected and the actual protocol.
C14_LookupProtocolGuard ==
  (/\ hp.o # None
   /\ hp.o[1].op \in {"findOptimalSwap", "findOptimalStableSwap"}
   /\ hp.route # None) =>
     IF hp.route[1].protocol = SwapHelperIdentity[hp.helper].protocol
     THEN hp.pc = "returned" /\ hp.result = hp.route
     ELSE /\ hp.pc = "thrown"
          /\ hp.result = None
          /\ hp.thrown[1].text = "Best route is not"
          /\ hp.thrown[1].name = SwapHelperIdentity[hp.helper].name
          /\ hp.thrown[1].detail = hp.route[1].protocol

C14_Witness ==
  /\ hp.o # None
  /\ hp.helper = "oneinch"
  /\ hp.o[1].op = "findOptimalSwap"
  /\ hp.pc = "thrown"
  /\ hp.http = 2
  /\ hp.route # None
  /\ hp.route[1].protocol = "uniswap"
  /\ hp.thrown[1] = [text |-> "Best route is not", name |-> "1inch",
                     detail |-> "uniswap"]

\* Reachable: an invalid address that was sent to the backend, and a
\* signAndSend for an operation whose arguments are invalid.
InvalidArgumentSent == hp.o # None /\ InvalidArgument(hp) /\ hp.http > 0

InvalidArgumentSigned == hp.o # None /\ InvalidArgument(hp) /\ hp.signed # <<>>

(***************************************************************************)
(* Properties of the transaction helper.                                   *)
(***************************************************************************)
RequestedMethods == [i \in 1..Len(th.requests) |-> th.requests[i].method]

\* C15: signAndSend issues eth_sendTransaction only after eth_accounts has
\* returned at least one account; when the transport exposes no account it
\* fails with a connection-required error and no eth_sendTransaction request
\* is ever made for that call.
C15_SendOnlyWithAccount ==
  th.op = "signAndSend" =>
    /\ RequestedMethods \in {<<"eth_accounts">>,
                              <<"eth_accounts", "eth_sendTransaction">>}
    /\ Len(th.requests) = 2 =>
          /\ th.accounts # None
          /\ th.accounts[1] # None
          /\ Len(th.accounts[1][1]) >= 1
    /\ (th.accounts # None
          /\ (th.accounts[1] = None \/ th.accounts[1][1] = <<>>)) =>
          /\ th.pc = "thrown"
          /\ th.thrown[1].text = "Transaction failed"
          /\ th.thrown[1].detail =
                "No wallet connected. Please connect your wallet first."
          /\ RequestedMethods = <<"eth_accounts">>

C15_Witness ==
  /\ th.op = "signAndSend"
  /\ th.accounts = Some(Some(<<>>))
  /\ th.pc = "thrown"

\* C16: waitForConfirmation returns a receipt only when a poll found a mined
\* receipt and, in that same poll, currentBlock - receiptBlock >= the
\* requested number of confirmations; a receipt that is absent, not yet mined
\* or has fewer confirmations never ends the wait successfully.
C16_ConfirmedOnlyWithConfirmations ==
  (th.op = "waitForConfirmation" /\ th.pc = "confirmed") =>
    /\ th.poll.receipt # None
    /\ th.poll.receipt[1].blockNumber # None
    /\ th.poll.currentBlock # None
    /\ th.poll.currentBlock[1].hex - th.poll.receipt[1].blockNumber[1].hex
          >= th.confirmations
    /\ th.result # None
    /\ th.result[1].blockNumber = th.poll.receipt[1].blockNumber[1].hex

C16_Witness ==
  /\ th.op = "waitForConfirmation"
  /\ th.pc = "confirmed"
  /\ th.confirmations = 2
  /\ th.elapsed >= PollInterval
  /\ th.poll.receipt[1].blockNumber = Some(Hex(1))
  /\ th.poll.currentBlock = Some(Hex(3))

WaitActive ==
  th.op = "waitForConfirmation" /\ th.pc \in {"receipt", "block", "sleeping"}

WaitEnded ==
  th.op = "waitForConfirmation" /\ th.pc \in {"confirmed", "timedout"}

\* C17: every waitForConfirmation call eventually ends in exactly one of two
\* outcomes, Confirmed (receipt returned) or TimedOut (timeout error raised),
\* provided every transport request eventually completes and time advances;
\* lookup errors raised by individual polls never end the wait, and no poll
\* is issued after either outcome.
C17_WaitEnds ==
  /\ WaitActive ~> WaitEnded
  /\ [](th.op = "waitForConfirmation" =>
          /\ th.pc = "confirmed" => th.result # None /\ th.thrown = None
          /\ th.pc = "timedout" =>
                /\ th.result = None
                /\ th.thrown # None
                /\ th.thrown[1].text = "Transaction confirmation timeout after"
                /\ th.thrown[1].detail = th.timeout
                /\ th.elapsed >= th.timeout)
  /\ [][(WaitActive /\ th'.event = "rejected") => th'.pc = "sleeping"]_vars
  /\ [][WaitEnded =>
           \/ th' = th
           \/ th'.event = "call" /\ th'.elapsed = 0]_vars

C17_Witness ==
  /\ th.op = "waitForConfirmation"
  /\ th.pc = "timedout"
  /\ th.timeout = DefaultTimeout
  /\ th.elapsed > DefaultTimeout

(***************************************************************************)
(* Properties of formatAmount and parseAmount.                             *)
(***************************************************************************)
AllDigits(s) == \A i \in 1..Len(s) : s[i] \in {"0", "1", "5"}

DotAt(s) == CHOOSE i \in 1..Len(s) : s[i] = "."

\* A human-readable decimal string: digits, or digits '.' digits.
HumanReadable(x) ==
  /\ x # <<>>
  /\ \/ AllDigits(x)
     \/ /\ \E i \in 1..Len(x) : x[i] = "."
        /\ 1 < DotAt(x) /\ DotAt(x) < Len(x)
        /\ AllDigits(SubSeq(x, 1, DotAt(x) - 1))
        /\ AllDigits(SubSeq(x, DotAt(x) + 1, Len(x)))

FractionDigits(x) ==
  IF \E i \in 1..Len(x) : x[i] = "." THEN Len(x) - DotAt(x) ELSE 0

\* ... written the one way formatAmount writes it: no leading zero before
\* another digit, no trailing zero after the point.
Canonical(x) ==
  /\ HumanReadable(x)
  /\ x[1] = "0" => (Len(x) = 1 \/ x[2] = ".")
  /\ FractionDigits(x) > 0 => x[Len(x)] # "0"

C19_CleanupUnsubscribes ==
  \A i \in 1..Len(wl.subs) :
     LET s == wl.subs[i]
     IN  /\ s.removal => ~s.registered /\ ~s.invokedAfter
         /\ (s.cleaned /\ ~s.removal /\ s.target # "none") => s.registered

(***************************************************************************)
(* Properties of the configuration setters.                                *)
(***************************************************************************)
\* C21: an optimizeYield or findOptimalSwap call that is in flight when
\* setChainId or setMode is invoked keeps the chain id, mode and router
\* address of its start: every retry attempt sends the request of the first
\* attempt, and the managed-mode rewrite of its result reads the mode and
\* router address of the first attempt.
C21_InFlightKeepsStartConfiguration ==
  [][/\ (call'.first # None /\ pending' # None) => pending'[1] = call'.first[1]
     /\ (call.first # None /\ call'.seen # None)
          => call'.seen[1] = [mode          |-> call.first[1].mode[1],
                              routerAddress |-> call.first[1].routerAddress]]_vars

\* C28: after construction a step that changes the chain id is a setChainId
\* and leaves mode, router address and retry options as they were (a router
\* address taken from the per-chain default is not resolved again); a step
\* that changes mode or router address is a setMode and leaves the chain id
\* as it was.
C28_SetterFrames ==
  [][(client # NoClient /\ client' # client) =>
       LET c == client[1]
           d == client'[1]
       IN  /\ client' # NoClient
           /\ d.retryOptions = c.retryOptions
           /\ d.chainId # c.chainId =>
                 /\ SetChainId
                 /\ d.mode = c.mode
                 /\ d.routerAddress = c.routerAddress
           /\ (d.mode # c.mode \/ d.routerAddress # c.routerAddress) =>
                 /\ SetMode
                 /\ d.chainId = c.chainId]_vars

\* The router address is the default of chain 11155111 while the chain id is
\* another one: the client was constructed on 11155111 without an address
\* and setChainId has run.
C28_Witness ==
  /\ client # NoClient
  /\ client[1].routerAddress = Some(SepoliaRouter)
  /\ client[1].chainId # 11155111

(***************************************************************************)
(* Properties of the protocol helpers' execution step.                     *)
(***************************************************************************)
\* C23: a swap-oriented helper (Curve, Uniswap, 1inch) hands signAndSend only
\* transactions of routes whose protocol is the helper's own, whether the
\* route came from the lookup or from options.existingRoute.
C23_SwapSignsOwnProtocolOnly ==
  (hp.o # None /\ hp.helper \in {"curve", "uniswap", "oneinch"}
   /\ hp.signed # <<>>)
    => hp.route[1].protocol
         = (CASE hp.helper = "curve"   -> "curve"
              [] hp.helper = "uniswap" -> "uniswap"
              [] OTHER                 -> "1inch")

\* C24: with execute unset an operation never calls signAndSend and never
\* fails with the error of the missing transaction helper.
C24_PrepareOnlyIgnoresTxHelper ==
  (hp.o # None /\ ~hp.execute) =>
    /\ hp.signed = <<>>
    /\ hp.pc # "signing"
    /\ hp.thrown # None =>
          hp.thrown[1].text # "Transaction helper not set"

\* The case of C30: execute is set, the transaction helper is configured and
\* the operation has a response (or an existing route) without a transaction.
ExecuteWithoutTransaction ==
  /\ hp.o # None
  /\ hp.execute
  /\ hp.txHelper
  /\ hp.route # None
  /\ hp.route[1].transaction = None

\* C30 as stated: in that case the operation returns the response without a
\* txHash, has not called signAndSend and raises no error.
C30_NoTransactionReturnsQuietly ==
  ExecuteWithoutTransaction =>
    /\ hp.pc = "returned"
    /\ hp.thrown = None
    /\ hp.signed = <<>>
    /\ hp.result = hp.route
    /\ hp.result[1].txHash = None

\* C30 amended: the same, for a response that names the protocol the helper
\* asked for wherever the helper compares it (the swap helpers' lookup and
\* optimizeYieldWithPendle raise their mismatch error before they look at
\* the transaction).
C30_AcceptedNoTransactionReturnsQuietly ==
  (/\ ExecuteWithoutTransaction
   /\ \/ hp.o[1].guard = None
      \/ hp.existingRoute # None
      \/ hp.route[1].protocol = hp.o[1].guard[1].protocol) =>
    /\ hp.pc = "returned"
    /\ hp.thrown = None
    /\ hp.signed = <<>>
    /\ hp.result = hp.route
    /\ hp.result[1].txHash = None

C30_Witness ==
  /\ ExecuteWithoutTransaction
  /\ hp.helper = "morpho"
  /\ hp.pc = "returned"
  /\ hp.result = hp.route

(***************************************************************************)
(* Properties of the confirmed receipt.                                    *)
(***************************************************************************)
\* C27: a mined receipt with enough confirmations ends waitForConfirmation
\* normally whatever its status: the receipt is returned with the status it
\* carries (0 for a transaction reverted on chain) and no error is raised.
C27_RevertedIsConfirmed ==
  (/\ th.op = "waitForConfirmation"
   /\ th.poll.receipt # None
   /\ th.poll.currentBlock # None
   /\ th.poll.currentBlock[1].hex - th.poll.receipt[1].blockNumber[1].hex
         >= th.confirmations) =>
    /\ th.pc = "confirmed"
    /\ th.thrown = None
    /\ th.result # None
    /\ th.result[1].status = Some(th.poll.receipt[1].status[1].hex)

C27_Witness ==
  /\ th.op = "waitForConfirmation"
  /\ th.pc = "confirmed"
  /\ th.confirmations = 2
  /\ th.poll.receipt[1].status = Some(Hex(0))
  /\ th.result[1].status = Some(0)

(***************************************************************************)
(* Properties of the contracts.                                            *)
(***************************************************************************)
\* C22: a registerAdapter transaction with a non-zero adapter address and a
\* non-empty protocol id, sent by an account that holds the OPERATOR role
\* and is not blacklisted, does not revert and registers the adapter.
C22_OperatorRegistersAdapter ==
  (/\ sc.last.fn = "registerAdapter"
   /\ sc.pm.userRoles[sc.last.sender] = "OPERATOR"
   /\ sc.last.sender \notin sc.pm.blacklist
   /\ sc.last.arg # ZeroAddress
   /\ sc.last.protocolId # "") =>
    /\ sc.last.revert = ""
    /\ sc.router.adapters[sc.last.protocolId] = sc.last.arg

\* C25: executeBatch reverts exactly when the sender lacks EXECUTE_ACTION or
\* the batch has fewer than 1 or more than 20 actions, whatever the actions
\* do; otherwise it returns one flag and one result per action in order (the
\* flag is false for an unregistered protocol and for a failed adapter call)
\* and BatchExecuted carries the number of actions and the number of true
\* flags.
C25_BatchOutcome ==
  sc.last.fn = "executeBatch" =>
    LET t == sc.last
        n == Len(t.actions)
        permitted ==
          /\ t.sender \notin sc.pm.blacklist
          /\ sc.pm.userRoles[t.sender] \in {"USER", "OPERATOR", "ADMIN"}
        registered(i) == sc.router.adapters[t.actions[i].protocolId] # ZeroAddress
    IN  /\ (t.revert = "") <=> (permitted /\ n >= 1 /\ n <= 20)
        /\ t.revert = "" =>
              /\ Len(t.successes) = n
              /\ Len(t.results) = n
              /\ \A i \in 1..n :
                    /\ t.successes[i] = (registered(i) /\ t.actions[i].success)
                    /\ registered(i) => t.results[i] = t.actions[i].data
              /\ t.batchExecuted
                    = Some([user |-> t.sender, actionCount |-> n,
                            successCount |->
                              Cardinality({i \in 1..n : t.successes[i]})])

\* A batch that went through with a failed action next to a successful one.
C25_Witness ==
  /\ sc.last.fn = "executeBatch"
  /\ sc.last.revert = ""
  /\ sc.last.successes = <<FALSE, TRUE>>
  /\ sc.last.actions[1].protocolId = "aave"
  /\ sc.last.batchExecuted[1].successCount = 1

\* C26: hasPermission enforces both access lists: a blacklisted address has
\* no permission; when the whitelist is not empty an address outside it has
\* none; with an empty whitelist an address that is not blacklisted has the
\* permissions of its role.
C26_AccessListsEnforced ==
  LET granted ==
        [GUEST    |-> {"VIEW_ONLY"},
         USER     |-> {"VIEW_ONLY", "EXECUTE_ACTION"},
         OPERATOR |-> {"VIEW_ONLY", "EXECUTE_ACTION", "REGISTER_ADAPTER"},
         ADMIN    |-> Permissions]
  IN  \A user \in Accounts, permission \in Permissions :
         /\ user \in sc.pm.blacklist => ~hasPermission(sc.pm, user, permission)
         /\ (sc.pm.whitelist # {} /\ user \notin sc.pm.whitelist)
               => ~hasPermission(sc.pm, user, permission)
         /\ (sc.pm.whitelist = {} /\ user \notin sc.pm.blacklist)
               => (hasPermission(sc.pm, user, permission)
                     <=> permission \in granted[sc.pm.userRoles[user]])

\* C29: after a successful changeAdmin(newAdmin) the admin is newAdmin and a
\* previous admin other than newAdmin no longer has the ADMIN role nor the
\* permissions only that role gives; every admin-only function that went
\* through was sent by the admin.
C29_AuthorityMoved ==
  /\ (sc.last.fn = "changeAdmin" /\ sc.last.revert = "") =>
        /\ sc.pm.admin = sc.last.arg
        /\ sc.last.sender # sc.last.arg =>
              /\ sc.pm.userRoles[sc.last.sender] # "ADMIN"
              /\ \A permission \in {"MANAGE_PERMISSIONS", "MANAGE_ASSETS"} :
                    ~hasPermission(sc.pm, sc.last.sender, permission)
  /\ (/\ sc.last.fn \in {"assignRole", "addToWhitelist", "removeFromWhitelist",
                          "addToBlacklist", "removeFromBlacklist"}
      /\ sc.last.revert = "") => sc.last.sender = sc.pm.admin

====
